---- MODULE Spec2Model ----
(***************************************************************************)
(* Model of truflationdev/telegram_bot:                                    *)
(*   - src/src/telegram_bot/utilities.py: the JSON log store of a producer *)
(*     host (log_to_bot, delete_entries_older_than_x_days, save_logs) and  *)
(*     its replication step (run, push_log);                               *)
(*   - src/src/telegram_bot/systems_monitor_bot.py: the monitoring bot     *)
(*     (heartbeat gate, general-log scan, health evaluation, commands on   *)
(*     the cursors, the job queue with /sleep, /stop, /start, /run_jobs,   *)
(*     and server_up_checks await by await).                               *)
(* Time is time.time() in whole seconds.  A text is the sequence of its    *)
(* lines, each line a record naming what the line says.                    *)
(***************************************************************************)
EXTENDS Integers, Sequences, FiniteSets, TLC

VARIABLES
    now,          \* the wall clock, epoch seconds
    ticks,        \* number of clock advances so far (bounds the run)
    \* ---- producer host: one log file written by several OS processes
    file,         \* [exists, data]: the log file at log_file_path
    pc,           \* per process: where it stands in log_to_bot / prune
    ts,           \* per process: the key stamped by log_to_bot
    data_dict,    \* per process: the record built by process_input_data
    total_report, \* per process: the mapping loaded from the file
    finished,     \* set of [proc, op, key, raised]: the operations that ended
    ops,          \* number of operations started so far (bounds the run)
    security_file, \* [exists, data]: the health log file of the producer host
    calls,        \* the last two calls one process made, one after the other
    \* ---- the monitoring bot (systems_monitor_bot.py)
    heartbeat_wait_period_dic,   \* category -> wait period, from the config file
    heartbeat_last_message_dic,  \* category -> time of the last heartbeat
    links_to_check_uptime,       \* the URLs of the links file
    last_check_timestamp,        \* the cursor reset / move_to_end act on
    last_general_log_check_ts,   \* the cursor of the general-log scan
    general_logs,  \* the general_logs files of bot_directory: sequence of files
    health_logs,   \* the health_logs files of bot_directory: sequence of files
    writes,        \* number of entries the producers have delivered (bounds the run)
    out,           \* what the last handler call did: texts built, messages sent
    hb_times,      \* category -> times of the last two heartbeat messages delivered
    reported,      \* the records the alarm texts of the general-log scans included
    \* ---- the job queue of the bot (main)
    jobs,          \* the registered jobs, in the order of job_queue.jobs()
    cmd,           \* what the last command on the job queue did
    commands,      \* number of commands the operators have sent (bounds the run)
    inv            \* per invocation of server_up_checks: where it stands

store_vars == <<file, pc, ts, data_dict, total_report, finished, ops,
                security_file, calls>>
bot_vars == <<heartbeat_wait_period_dic, heartbeat_last_message_dic,
              links_to_check_uptime,
              last_check_timestamp, last_general_log_check_ts,
              general_logs, health_logs, writes, out, hb_times>>
job_vars == <<jobs, cmd, commands, inv>>
sched_vars == <<job_vars, reported>>
vars == <<now, ticks, store_vars, bot_vars, sched_vars>>

----------------------------------------------------------------------------
(* Bounds of the model *)
MaxTicks == 2
MaxOps == 2     \* operations the producer processes run in all
MaxCommands == 2  \* commands the operators send in all

(* Program constants *)
log_life == 3

----------------------------------------------------------------------------
(* Timestamp keys.  A key is the string an entry is filed under; the model  *)
(* keeps what the string says: its format, the second and the microsecond. *)
(*   "epoch"   : a bare float, e.g. "1700000000.0"                         *)
(*   "iso_us"  : YYYY-MM-DDTHH:MM:SS.ffffff                                *)
(*   "iso_sec" : YYYY-MM-DDTHH:MM:SS (isoformat() of a time whose          *)
(*               microsecond is 0)                                         *)
USecs == {0, 500000}

isoformat(t, us) ==
    [fmt |-> IF us = 0 THEN "iso_sec" ELSE "iso_us", t |-> t, us |-> us]

(* float(key) succeeds, else datetime.fromisoformat(key): both iso forms parse *)
prune_timestamp(key) == key.t

EmptyStore == <<>>

Put(store, key, rec) ==
    [k \in (DOMAIN store) \cup {key} |-> IF k = key THEN rec ELSE store[k]]

Restrict(store, keys) == [k \in keys |-> store[k]]

----------------------------------------------------------------------------
(* utilities.py *)

(* The names bound in the module namespace of utilities.py: its imports and *)
(* its top-level definitions.                                               *)
ModuleNames ==
    {"os", "json", "datetime", "time", "subprocess", "ILock", "OrderedDict",
     "Union", "Dict", "socket", "hostname", "log_life",
     "delete_entries_older_than_x_days", "check_log_file",
     "load_logs_into_dict", "save_logs", "process_input_data", "log_to_bot",
     "str_to_datetime", "run", "push_log"}

(* check_log_file: creates the file holding {} when it does not exist *)
check_log_file(f) == IF f.exists THEN f ELSE [exists |-> TRUE, data |-> EmptyStore]

(* save_logs: `with Ilock('save_log_lock'):` looks the name Ilock up first; *)
(* the body (check_log_file, open(.., "w"), json.dump) runs under the lock. *)
(* Result: the file afterwards and the exception raised, if any.            *)
save_logs(logs_dict, f) ==
    IF "Ilock" \in ModuleNames
    THEN [file |-> [exists |-> TRUE, data |-> logs_dict], raised |-> "none"]
    ELSE [file |-> f, raised |-> "NameError"]

(* The inputs handed to log_to_bot: a mapping, a string that is JSON, a     *)
(* string that is not, and a value that is neither mapping nor string.      *)
(* val: the mapping, or what json.loads gives for the string; loads: the    *)
(* Python type of what json.loads gives.  The values of a store are         *)
(* compared with each other, so a value that is no mapping is written as    *)
(* the record [value |-> its text], its type being kept in loads.           *)
NoRecord == [none |-> "none"]

Inputs ==
    { [kind |-> "dict",  val |-> [disk_usage |-> "80"], text |-> "", loads |-> "none"],
      [kind |-> "json",  val |-> [error |-> "boom"], text |-> "{error: boom}",
       loads |-> "dict"],
      [kind |-> "json",  val |-> [value |-> "5"], text |-> "5", loads |-> "int"],
      [kind |-> "json",  val |-> [value |-> "down"], text |-> "'down'", loads |-> "str"],
      [kind |-> "json",  val |-> [value |-> "[1, 2]"], text |-> "[1, 2]", loads |-> "list"],
      [kind |-> "str",   val |-> NoRecord, text |-> "plain text", loads |-> "none"],
      [kind |-> "other", val |-> NoRecord, text |-> "", loads |-> "none"] }

(* line 100: json.loads gives a dict for a JSON object only *)
type_of_loads(input) == input.loads

(* process_input_data: [raised, val, type], type being the Python type of   *)
(* the value returned                                                       *)
process_input_data(input) ==
    CASE input.kind = "dict" -> [raised |-> "none", val |-> input.val, type |-> "dict"]
      [] input.kind = "json" ->
            [raised |-> "none", val |-> input.val, type |-> type_of_loads(input)]
      [] input.kind = "str"  ->
            [raised |-> "none", val |-> [general |-> input.text], type |-> "dict"]
      [] OTHER -> [raised |-> "TypeError", val |-> NoRecord, type |-> "none"]

prune_keeps_all_but_oldest(data, current_time, days) ==
    {k \in DOMAIN data : \E j \in DOMAIN data : prune_timestamp(j) < prune_timestamp(k)}

(* the keys delete_entries_older_than_x_days keeps, at current_time *)
prune_keeps(data, current_time, days) ==
    {k \in DOMAIN data :
        ~((current_time - days * 24 * 3600) > prune_timestamp(k))}

Procs == {"p1", "p2"}

NoKey == [fmt |-> "none", t |-> 0, us |-> 0]

(* The log file as the producer host may find it when a process starts:    *)
(* missing, holding {}, or holding an entry written earlier.               *)
StartTime == 4 * 24 * 3600
OldKey == [fmt |-> "iso_us", t |-> 0, us |-> 500000]
InitialFiles ==
    { [exists |-> FALSE, data |-> EmptyStore],
      [exists |-> TRUE,  data |-> EmptyStore],
      [exists |-> TRUE,  data |-> Put(EmptyStore, OldKey, [status |-> "ok"])] }

End(p, op, key, exc) ==
    /\ pc' = [pc EXCEPT ![p] = "idle"]
    /\ finished' = finished \cup {[proc |-> p, op |-> op, key |-> key, raised |-> exc]}

(* log_to_bot, lines 117-120: process_input_data, then the key is stamped *)
log_to_bot_begin(p) ==
    \E input \in Inputs, us \in USecs :
        LET r == process_input_data(input) IN
        /\ pc[p] = "idle"
        /\ ops < MaxOps
        /\ ops' = ops + 1
        /\ IF r.raised # "none"
           THEN /\ End(p, "append", NoKey, r.raised)
                /\ UNCHANGED <<ts, data_dict>>
           ELSE /\ pc' = [pc EXCEPT ![p] = "append_load"]
                /\ ts' = [ts EXCEPT ![p] = isoformat(now, us)]
                /\ data_dict' = [data_dict EXCEPT ![p] = r.val]
                /\ UNCHANGED finished
        /\ UNCHANGED <<file, total_report, now, ticks, bot_vars, sched_vars,
                   security_file, calls>>

(* log_to_bot, line 122: load_logs_into_dict *)
log_to_bot_load(p) ==
    /\ pc[p] = "append_load"
    /\ file' = check_log_file(file)
    /\ total_report' = [total_report EXCEPT ![p] = file'.data]
    /\ pc' = [pc EXCEPT ![p] = "append_save"]
    /\ UNCHANGED <<ts, data_dict, finished, ops, now, ticks, bot_vars, sched_vars,
                   security_file, calls>>

(* log_to_bot, lines 124-125: total_report.update(..); save_logs(..) *)
log_to_bot_save(p) ==
    LET merged == Put(total_report[p], ts[p], data_dict[p])
        r == save_logs(merged, file) IN
    /\ pc[p] = "append_save"
    /\ file' = r.file
    /\ total_report' = [total_report EXCEPT ![p] = EmptyStore]
    /\ ts' = [ts EXCEPT ![p] = NoKey]
    /\ data_dict' = [data_dict EXCEPT ![p] = NoRecord]
    /\ End(p, "append", ts[p], r.raised)
    /\ UNCHANGED <<ops, now, ticks, bot_vars, sched_vars,
                   security_file, calls>>

(* delete_entries_older_than_x_days, lines 22-26: the file is read *)
prune_read(p) ==
    /\ pc[p] = "idle"
    /\ ops < MaxOps
    /\ ops' = ops + 1
    /\ file' = check_log_file(file)
    /\ total_report' = [total_report EXCEPT ![p] = file'.data]
    /\ pc' = [pc EXCEPT ![p] = "prune_save"]
    /\ UNCHANGED <<ts, data_dict, finished, now, ticks, bot_vars, sched_vars,
                   security_file, calls>>

(* delete_entries_older_than_x_days, lines 28-44: old keys deleted, saved *)
prune_save(p) ==
    LET kept == Restrict(total_report[p], prune_keeps(total_report[p], now, log_life))
        r == save_logs(kept, file) IN
    /\ pc[p] = "prune_save"
    /\ file' = r.file
    /\ total_report' = [total_report EXCEPT ![p] = EmptyStore]
    /\ End(p, "prune", NoKey, r.raised)
    /\ UNCHANGED <<ts, data_dict, ops, now, ticks, bot_vars, sched_vars,
                   security_file, calls>>

(* the clock of the producer host *)
StoreSteps == {1, log_life * 24 * 3600}

TickStore ==
    /\ ticks < MaxTicks
    /\ \E d \in StoreSteps : now' = now + d
    /\ ticks' = ticks + 1
    /\ UNCHANGED <<store_vars, bot_vars, sched_vars>>

InitStoreVars ==
    /\ file \in InitialFiles
    /\ pc = [p \in Procs |-> "idle"]
    /\ ts = [p \in Procs |-> NoKey]
    /\ data_dict = [p \in Procs |-> NoRecord]
    /\ total_report = [p \in Procs |-> EmptyStore]
    /\ finished = {}
    /\ ops = 0
    /\ security_file = [exists |-> FALSE, data |-> EmptyStore]
    /\ calls = <<>>

----------------------------------------------------------------------------
(* systems_monitor_bot.py: the heartbeat gate *)

Categories == {"general_logs", "server_health_logs", "up_checks", "daily_checks"}

(* heartbeat_start_time: the time the bot was started *)
heartbeat_start_time == StartTime

(* The contents the heartbeat wait-period file may have: an entry for every *)
(* category, for some, or for none.                                         *)
WaitConfigs ==
    { [c \in Categories |-> 3600],
      [c \in {"up_checks", "general_logs"} |-> 3600],
      [c \in {} |-> 3600] }

(* heartbeat_wait_period_dic.get(heartbeat_type, 24 * 3600) *)
wait_period_get(cat) ==
    IF cat \in DOMAIN heartbeat_wait_period_dic
    THEN heartbeat_wait_period_dic[cat] ELSE 24 * 3600

(* the comparison of lines 288-289, 646 and 705 *)
heartbeat_due_at_the_period(last_sent, wait, ts_now) == last_sent + wait <= ts_now

heartbeat_due(last_sent, wait, ts_now) == last_sent + wait < ts_now

(* print_to_heartbeat_chat: nothing is sent for an empty text; a failure of *)
(* the send is caught.  Result: the messages handed to the notifier.        *)
print_to_heartbeat_chat(message, ok) ==
    IF message = <<>> THEN <<>> ELSE <<[text |-> message, ok |-> ok]>>

(* send_heartbeat_and_alarm_messages.  hb_ok, alarm_ok: whether the notifier *)
(* accepts the heartbeat and the alarm message.                              *)
send_heartbeat_and_alarm_messages(heartbeat_messages, alarm_messages, heartbeat_type, hb_ok, alarm_ok) ==
    IF Len(heartbeat_messages) > 0
       /\ heartbeat_type \notin DOMAIN heartbeat_last_message_dic
    THEN [raised |-> "KeyError", last |-> heartbeat_last_message_dic,
          hb_sent |-> <<>>, alarm_sent |-> <<>>]
    ELSE LET due == /\ Len(heartbeat_messages) > 0
                    /\ heartbeat_due(heartbeat_last_message_dic[heartbeat_type],
                                     wait_period_get(heartbeat_type), now)
             alarm == IF Len(alarm_messages) > 0
                      THEN <<[text |-> alarm_messages, ok |-> alarm_ok]>>
                      ELSE <<>>
         IN  [raised |-> IF alarm # <<>> /\ ~alarm_ok
                         THEN "NotificationError" ELSE "none",
              last |-> IF due
                       THEN [c \in DOMAIN heartbeat_last_message_dic \cup {heartbeat_type} |->
                               IF c = heartbeat_type THEN now
                               ELSE heartbeat_last_message_dic[c]]
                       ELSE heartbeat_last_message_dic,
              hb_sent |-> IF due THEN print_to_heartbeat_chat(heartbeat_messages, hb_ok)
                          ELSE <<>>,
              alarm_sent |-> alarm]

(* What a handler call leaves behind for the observer *)
NoOut == [op |-> "none", cat |-> "none", raised |-> "none",
          hb_text |-> <<>>, alarm_text |-> <<>>, hb_sent |-> <<>>, alarm_sent |-> <<>>]

Delivered(msgs) == SelectSeq(msgs, LAMBDA m : m.ok)

LastTwo(seq) == IF Len(seq) <= 2 THEN seq ELSE SubSeq(seq, Len(seq) - 1, Len(seq))

(* the handler's record, and the delivery times of the heartbeat chat *)
Observe(op, cat, exc, hb_text, alarm_text, hb_sent, alarm_sent) ==
    /\ out' = [op |-> op, cat |-> cat, raised |-> exc,
               hb_text |-> hb_text, alarm_text |-> alarm_text,
               hb_sent |-> hb_sent, alarm_sent |-> alarm_sent]
    /\ hb_times' = [hb_times EXCEPT ![cat] =
                      LastTwo(@ \o [i \in 1..Len(Delivered(hb_sent)) |-> now])]

----------------------------------------------------------------------------
(* systems_monitor_bot.py: the jobs that gate their heartbeat themselves *)

LinkStatus == {"up", "down", "exception"}

(* What a call of a job's callback gives: the handler's record, and the    *)
(* heartbeat_last_message_dic it leaves.                                    *)
Outcome(op, cat, exc, hb_text, alarm_text, hb_sent, alarm_sent, last) ==
    [op |-> op, cat |-> cat, raised |-> exc, hb_text |-> hb_text,
     alarm_text |-> alarm_text, hb_sent |-> hb_sent, alarm_sent |-> alarm_sent,
     last |-> last]

(* the handler's record of an outcome *)
Record(o) ==
    [op |-> o.op, cat |-> o.cat, raised |-> o.raised, hb_text |-> o.hb_text,
     alarm_text |-> o.alarm_text, hb_sent |-> o.hb_sent, alarm_sent |-> o.alarm_sent]

(* a scheduled firing of a job: its callback runs from its first line to    *)
(* its return or to the exception that leaves it                            *)
Fired(o) ==
    /\ Observe(o.op, o.cat, o.raised, o.hb_text, o.alarm_text, o.hb_sent, o.alarm_sent)
    /\ heartbeat_last_message_dic' = o.last

(* server_up_checks.  status: what requests.get gave for each link. *)
callback_server_up_checks(status, hb_ok, alarm_ok) ==
    LET n == Len(links_to_check_uptime)
        my_alert_string ==
            SelectSeq([i \in 1..n |-> [link |-> links_to_check_uptime[i],
                                       status |-> status[i]]],
                      LAMBDA l : l.status # "up")
        successes == Cardinality({i \in 1..n : status[i] = "up"})
        heartbeat_message ==
            <<[successes |-> successes, of |-> n]>>
            \o [i \in 1..n |-> [link |-> links_to_check_uptime[i],
                                status |-> status[i]]]
        alarm == IF my_alert_string # <<>>
                 THEN <<[text |-> my_alert_string, ok |-> alarm_ok]>> ELSE <<>>
    IN
    IF alarm # <<>> /\ ~alarm_ok
    THEN \* lines 641-642: send_message raised
         Outcome("server_up_checks", "up_checks", "NotificationError",
                 <<>>, my_alert_string, <<>>, alarm, heartbeat_last_message_dic)
    ELSE IF "up_checks" \notin DOMAIN heartbeat_last_message_dic
    THEN \* line 646: heartbeat_last_message_dic["up_checks"]
         Outcome("server_up_checks", "up_checks", "KeyError",
                 <<>>, my_alert_string, <<>>, alarm, heartbeat_last_message_dic)
    ELSE IF heartbeat_due(heartbeat_last_message_dic["up_checks"],
                          wait_period_get("up_checks"), now)
    THEN Outcome("server_up_checks", "up_checks", "none",
                 heartbeat_message, my_alert_string,
                 print_to_heartbeat_chat(heartbeat_message, hb_ok), alarm,
                 [heartbeat_last_message_dic EXCEPT !["up_checks"] = now])
    ELSE Outcome("server_up_checks", "up_checks", "none",
                 <<>>, my_alert_string, <<>>, alarm, heartbeat_last_message_dic)

server_up_checks ==
    \E status \in [1..Len(links_to_check_uptime) -> LinkStatus],
       hb_ok \in BOOLEAN, alarm_ok \in BOOLEAN :
        /\ Fired(callback_server_up_checks(status, hb_ok, alarm_ok))
        /\ UNCHANGED <<heartbeat_wait_period_dic, links_to_check_uptime,
                       last_check_timestamp, last_general_log_check_ts,
                       general_logs, health_logs, writes, now, ticks, store_vars, sched_vars>>

(* What daily_module.main may return; no module configured gives ([], []). *)
DailyAlerts == {<<>>, <<"daily alert">>}
DailyHeartbeats == {<<>>, <<"custom heartbeat">>}

(* daily_checks *)
callback_daily_checks(alerts, heartbeat_messages, hb_ok, alarm_ok) ==
    LET alarm == [i \in 1..Len(alerts) |-> [text |-> <<alerts[i]>>, ok |-> alarm_ok]]
        finished_message == <<"Daily Checks Finished">>
        custom_message == <<"Custom heartbeat messages">> \o heartbeat_messages
    IN
    IF alarm # <<>> /\ ~alarm_ok
    THEN \* line 697: send_message raised
         Outcome("daily_checks", "daily_checks", "NotificationError",
                 <<>>, alerts, <<>>, alarm, heartbeat_last_message_dic)
    ELSE IF "daily_checks" \notin DOMAIN heartbeat_last_message_dic
    THEN \* line 705: heartbeat_last_message_dic["daily_checks"]
         Outcome("daily_checks", "daily_checks", "KeyError",
                 <<>>, alerts, <<>>, alarm, heartbeat_last_message_dic)
    ELSE IF heartbeat_due(heartbeat_last_message_dic["daily_checks"],
                          wait_period_get("daily_checks"), now)
    THEN \* lines 706-713: two messages, the time recorded after each
         Outcome("daily_checks", "daily_checks", "none",
                 finished_message \o custom_message, alerts,
                 print_to_heartbeat_chat(finished_message, hb_ok)
                 \o print_to_heartbeat_chat(custom_message, hb_ok), alarm,
                 [heartbeat_last_message_dic EXCEPT !["daily_checks"] = now])
    ELSE Outcome("daily_checks", "daily_checks", "none",
                 <<>>, alerts, <<>>, alarm, heartbeat_last_message_dic)

daily_checks ==
    \E alerts \in DailyAlerts, heartbeat_messages \in DailyHeartbeats,
       hb_ok \in BOOLEAN, alarm_ok \in BOOLEAN :
        /\ Fired(callback_daily_checks(alerts, heartbeat_messages, hb_ok, alarm_ok))
        /\ UNCHANGED <<heartbeat_wait_period_dic, links_to_check_uptime,
                       last_check_timestamp, last_general_log_check_ts,
                       general_logs, health_logs, writes, now, ticks, store_vars, sched_vars>>

----------------------------------------------------------------------------
(* systems_monitor_bot.py: the general-log scan (keyword mode) *)

(* utilities.str_to_datetime followed by datetime.timestamp: float(key)     *)
(* first, then strptime with '%Y-%m-%dT%H:%M:%S.%f', which needs a fraction *)
str_to_datetime(key) ==
    CASE key.fmt = "epoch"  -> [raised |-> "none", t |-> key.t]
      [] key.fmt = "iso_us" -> [raised |-> "none", t |-> key.t]
      [] OTHER              -> [raised |-> "ValueError", t |-> 0]

alarm_words_without_error == {"alert"}

alarm_words_for_general_logs == {"alert", "error"}

(* the fields of a record that are / are not alarm words, as a record *)
Fields(data, names) == [k \in names |-> data[k]]

(* check_values: the loop over the entries of one file, from entry i on.    *)
(* acc = [raised, heartbeat_logs, error_logs, most_recent_timestamp]        *)
RECURSIVE check_values_loop(_, _, _, _, _)
check_values_loop(entries, i, last_ts, alarm_words, acc) ==
    IF i > Len(entries) THEN acc
    ELSE LET time_object == str_to_datetime(entries[i].key)
             time_stamp == time_object.t
             data == entries[i].data
             hb_names == {k \in DOMAIN data : k \notin alarm_words}
             err_names == {k \in DOMAIN data : k \in alarm_words}
         IN  IF time_object.raised # "none"
             THEN [acc EXCEPT !.raised = time_object.raised]
             ELSE IF time_stamp <= last_ts
             THEN check_values_loop(entries, i + 1, last_ts, alarm_words, acc)
             ELSE check_values_loop(entries, i + 1, last_ts, alarm_words,
                    [raised |-> "none",
                     heartbeat_logs |->
                        IF hb_names # {}
                        THEN Append(acc.heartbeat_logs,
                                    [time |-> time_stamp, fields |-> Fields(data, hb_names)])
                        ELSE acc.heartbeat_logs,
                     error_logs |->
                        IF err_names # {}
                        THEN Append(acc.error_logs,
                                    [time |-> time_stamp, fields |-> Fields(data, err_names)])
                        ELSE acc.error_logs,
                     most_recent_timestamp |->
                        IF time_stamp > acc.most_recent_timestamp
                        THEN time_stamp ELSE acc.most_recent_timestamp])

check_values(timeseries_data, last_ts, alarm_words) ==
    check_values_loop(timeseries_data, 1, last_ts, alarm_words,
        [raised |-> "none", heartbeat_logs |-> <<>>, error_logs |-> <<>>,
         most_recent_timestamp |-> last_ts])

(* process_general_log_files: the loop over the files, from file i on.      *)
(* acc = [raised, heartbeat_messages, alarm_messages, most_recent_timestamp_outer] *)
RECURSIVE process_files_loop(_, _, _, _, _)
process_files_loop(my_files, i, last_ts, alarm_words, acc) ==
    IF i > Len(my_files) THEN acc
    ELSE LET r == check_values(my_files[i].entries, last_ts, alarm_words) IN
         IF ~my_files[i].json_ok
         THEN \* line 249: load_logs_into_dict, the decode error is not caught
              [acc EXCEPT !.raised = "JSONDecodeError"]
         ELSE IF r.raised # "none"
         THEN [acc EXCEPT !.raised = r.raised]
         ELSE process_files_loop(my_files, i + 1, last_ts, alarm_words,
                [raised |-> "none",
                 heartbeat_messages |->
                    IF r.heartbeat_logs # <<>>
                    THEN Append(acc.heartbeat_messages,
                                [server |-> my_files[i].server, logs |-> r.heartbeat_logs])
                    ELSE acc.heartbeat_messages,
                 alarm_messages |->
                    IF r.error_logs # <<>>
                    THEN Append(acc.alarm_messages,
                                [server |-> my_files[i].server, logs |-> r.error_logs])
                    ELSE acc.alarm_messages,
                 most_recent_timestamp_outer |->
                    IF r.most_recent_timestamp > acc.most_recent_timestamp_outer
                    THEN r.most_recent_timestamp
                    ELSE acc.most_recent_timestamp_outer])

process_general_log_files(my_files, last_ts, alarm_words) ==
    process_files_loop(my_files, 1, last_ts, alarm_words,
        [raised |-> "none", heartbeat_messages |-> <<>>, alarm_messages |-> <<>>,
         most_recent_timestamp_outer |-> last_ts])

(* check_general_logs, lines 319-320: the cursor after a scan *)
cursor_after_scan_rewinds(most_recent_timestamp, last_ts) ==
    IF most_recent_timestamp > last_ts THEN most_recent_timestamp ELSE 0

cursor_after_scan(most_recent_timestamp, last_ts) ==
    IF most_recent_timestamp > last_ts THEN most_recent_timestamp ELSE last_ts

(* lines 254-255: the records an alarm text includes, source by source *)
RECURSIVE AlarmRecords(_)
AlarmRecords(alarm_messages) ==
    IF alarm_messages = <<>> THEN <<>>
    ELSE [i \in 1..Len(Head(alarm_messages).logs) |->
             [server |-> Head(alarm_messages).server,
              time |-> Head(alarm_messages).logs[i].time]]
         \o AlarmRecords(Tail(alarm_messages))

(* check_general_logs: its outcome, the cursor it leaves and the records    *)
(* its alarm text included                                                  *)
callback_check_general_logs(hb_ok, alarm_ok) ==
    LET r == process_general_log_files(general_logs, last_general_log_check_ts,
                                       alarm_words_for_general_logs)
        sent == send_heartbeat_and_alarm_messages(
                    r.heartbeat_messages, r.alarm_messages, "general_logs",
                    hb_ok, alarm_ok)
        nothing == [cursor |-> last_general_log_check_ts, included |-> <<>>]
    IN
    IF general_logs = <<>>
    THEN \* lines 308-310: no general_logs file
         [o |-> Outcome("check_general_logs", "general_logs", "none",
                        <<>>, <<>>, <<>>, <<>>, heartbeat_last_message_dic)]
         @@ nothing
    ELSE IF r.raised # "none"
    THEN \* the scan raised: nothing is assigned, nothing is sent
         [o |-> Outcome("check_general_logs", "general_logs", r.raised,
                        <<>>, <<>>, <<>>, <<>>, heartbeat_last_message_dic)]
         @@ nothing
    ELSE [o |-> Outcome("check_general_logs", "general_logs", sent.raised,
                        r.heartbeat_messages, r.alarm_messages,
                        sent.hb_sent, sent.alarm_sent, sent.last),
          cursor |-> cursor_after_scan(r.most_recent_timestamp_outer,
                                       last_general_log_check_ts),
          included |-> AlarmRecords(r.alarm_messages)]

check_general_logs ==
    \E hb_ok \in BOOLEAN, alarm_ok \in BOOLEAN :
    \E c \in {callback_check_general_logs(hb_ok, alarm_ok)} :
        /\ Fired(c.o)
        /\ last_general_log_check_ts' = c.cursor
        /\ reported' = reported \o c.included
        /\ UNCHANGED <<heartbeat_wait_period_dic, links_to_check_uptime,
                       last_check_timestamp, general_logs, health_logs, writes,
                       now, ticks, store_vars, job_vars>>

----------------------------------------------------------------------------
(* systems_monitor_bot.py: the health evaluation (threshold mode) *)

(* value_threshold_dict = {"disk_usage": 95}: its one monitored field *)
disk_usage_threshold == 95
value_threshold_dict == [disk_usage |-> disk_usage_threshold]
monitored == "disk_usage"

NoValue == [time |-> -1, value |-> -1]

older_or_at_cursor(time_stamp, cursor) == time_stamp <= cursor

(* line 460: an entry older than the cursor is skipped *)
older_than_cursor(time_stamp, cursor) == time_stamp < cursor

reaches(value, threshold) == value >= threshold

(* line 464: data[name] > threshold *)
exceeds(value, threshold) == value > threshold

(* lines 451-469: the loop over the entries of one file, from entry i on.   *)
(* acc = [raised, alert, record]: my_alert_string so far, and what           *)
(* my_records[file_name] holds for the monitored field.                      *)
RECURSIVE health_entries_loop(_, _, _, _, _)
health_entries_loop(file_name, entries, i, my_records_names, acc) ==
    IF i > Len(entries) THEN acc
    ELSE LET time_object == str_to_datetime(entries[i].key)
             time_stamp == time_object.t
             data == entries[i].data
         IN  IF time_object.raised # "none"
             THEN [acc EXCEPT !.raised = time_object.raised]
             ELSE IF older_than_cursor(time_stamp, last_check_timestamp)
             THEN health_entries_loop(file_name, entries, i + 1, my_records_names, acc)
             ELSE IF monitored \in DOMAIN data
             THEN IF exceeds(data[monitored], value_threshold_dict[monitored])
                     \* line 466 asks my_records, whose keys are file names
                     /\ (monitored \notin my_records_names
                         \/ acc.record.time < time_stamp)
                  THEN health_entries_loop(file_name, entries, i + 1, my_records_names,
                          [acc EXCEPT !.record = [time |-> time_stamp,
                                                  value |-> data[monitored]]])
                  ELSE health_entries_loop(file_name, entries, i + 1, my_records_names, acc)
             ELSE \* line 469: my_alert_string is assigned, not extended
                  health_entries_loop(file_name, entries, i + 1, my_records_names,
                      [acc EXCEPT !.alert = <<[kind |-> "not found", file |-> file_name,
                                               name |-> monitored, value |-> 0]>>])

(* lines 472-474: the record with the greatest time *)
latest_values_dict(entries) ==
    LET i == CHOOSE i \in 1..Len(entries) :
                 \A j \in 1..Len(entries) :
                     str_to_datetime(entries[j].key).t <= str_to_datetime(entries[i].key).t
    IN entries[i].data

(* lines 427-478: the loop over the files, from file i on.                  *)
(* acc = [raised, alert, records, heartbeat]                                 *)
RECURSIVE health_files_loop(_, _, _)
health_files_loop(my_files, i, acc) ==
    IF i > Len(my_files) THEN acc
    ELSE LET f == my_files[i]
             stale == IF now - f.mtime > 3600
                      THEN <<[kind |-> "not updated", file |-> f.server,
                              name |-> "", value |-> (now - f.mtime) \div 3600]>>
                      ELSE <<>>
             names == {my_files[j].server : j \in 1..i}
             r == health_entries_loop(f.server, f.entries, 1, names,
                      [raised |-> "none", alert |-> acc.alert \o stale, record |-> NoValue])
         IN  IF r.raised # "none" THEN [acc EXCEPT !.raised = r.raised]
             ELSE IF f.entries = <<>>
             THEN [acc EXCEPT !.raised = "IndexError"]
             ELSE IF monitored \notin DOMAIN latest_values_dict(f.entries)
             THEN [acc EXCEPT !.raised = "KeyError in latest_values"]
             ELSE health_files_loop(my_files, i + 1,
                    [raised |-> "none",
                     alert |-> r.alert,
                     records |-> Append(acc.records,
                                        [server |-> f.server, record |-> r.record]),
                     heartbeat |-> Append(acc.heartbeat,
                                     [server |-> f.server, name |-> monitored,
                                      value |-> latest_values_dict(f.entries)[monitored]])])

(* lines 488-491: one line for every field recorded as exceeding *)
exceeds_lines(records) ==
    LET hit == SelectSeq(records, LAMBDA x : x.record # NoValue) IN
    [i \in 1..Len(hit) |-> [kind |-> "exceeds threshold", file |-> hit[i].server,
                            name |-> monitored, value |-> hit[i].record.value]]

(* the texts check_system_health builds: [raised, alarm, heartbeat] *)
health_texts(my_files) ==
    LET r == health_files_loop(my_files, 1,
                 [raised |-> "none", alert |-> <<>>, records |-> <<>>,
                  heartbeat |-> <<>>])
    IN [raised |-> r.raised, heartbeat |-> r.heartbeat,
        alarm |-> r.alert \o exceeds_lines(r.records)]

(* check_system_health *)
callback_check_system_health(hb_ok, alarm_ok) ==
    LET r == health_texts(health_logs)
        sent == send_heartbeat_and_alarm_messages(
                    r.heartbeat, r.alarm, "server_health_logs", hb_ok, alarm_ok)
    IN
    IF health_logs = <<>>
    THEN \* lines 412-413: no health_logs file
         Outcome("check_system_health", "server_health_logs", "none",
                 <<>>, <<>>, <<>>, <<>>, heartbeat_last_message_dic)
    ELSE IF r.raised # "none"
    THEN Outcome("check_system_health", "server_health_logs", r.raised,
                 <<>>, <<>>, <<>>, <<>>, heartbeat_last_message_dic)
    ELSE Outcome("check_system_health", "server_health_logs", sent.raised,
                 r.heartbeat, r.alarm, sent.hb_sent, sent.alarm_sent, sent.last)

check_system_health ==
    \E hb_ok \in BOOLEAN, alarm_ok \in BOOLEAN :
    \E o \in {callback_check_system_health(hb_ok, alarm_ok)} :
        /\ Fired(o)
        /\ UNCHANGED <<heartbeat_wait_period_dic, links_to_check_uptime,
                       last_check_timestamp, last_general_log_check_ts,
                       general_logs, health_logs, writes, now, ticks, store_vars, sched_vars>>

----------------------------------------------------------------------------
(* systems_monitor_bot.py: the operator commands on the cursor.  admins_only *)
(* drops the command of a user who is no administrator of the chat.          *)

Command(op, is_admin) ==
    /\ out' = [NoOut EXCEPT !.op = op,
                            !.raised = IF is_admin THEN "none" ELSE "not admin"]
    /\ UNCHANGED <<hb_times, heartbeat_wait_period_dic, heartbeat_last_message_dic,
                   links_to_check_uptime, last_general_log_check_ts,
                   general_logs, health_logs, writes, now, ticks, store_vars, sched_vars>>

(* reset *)
reset ==
    \E is_admin \in BOOLEAN :
        /\ Command("reset", is_admin)
        /\ last_check_timestamp' = IF is_admin THEN 0 ELSE last_check_timestamp

(* move_to_end *)
move_to_end ==
    \E is_admin \in BOOLEAN :
        /\ Command("move_to_end", is_admin)
        /\ last_check_timestamp' = IF is_admin THEN now ELSE last_check_timestamp

----------------------------------------------------------------------------
(* systems_monitor_bot.py, main: the job queue and the commands on it.  A   *)
(* word of a message is the sequence of its characters; a message is the    *)
(* sequence of its words, the command first.                                *)

(* lines 731-741: the four repeating jobs, enabled, with their first run    *)
(* counted from the start of the bot and their interval; the start is at    *)
(* 00:00 UTC, so that seconds_until_daily is 3600 and line 744 adds no job  *)
RegisteredJobs ==
    << [name |-> "check_system_health", enabled |-> TRUE,
        next_t |-> heartbeat_start_time + 15, interval |-> 60 * 60],
       [name |-> "server_up_checks", enabled |-> TRUE,
        next_t |-> heartbeat_start_time + 200, interval |-> 5 * 60],
       [name |-> "daily_checks", enabled |-> TRUE,
        next_t |-> heartbeat_start_time + 3600, interval |-> 24 * 60 * 60],
       [name |-> "check_general_logs", enabled |-> TRUE,
        next_t |-> heartbeat_start_time + 20, interval |-> 60] >>

(* job_monitor_system, job_up_checks, job_check_fetch_daily, job_general_logs *)
RepeatingJobs == {"check_system_health", "server_up_checks", "daily_checks", "check_general_logs"}

(* job.enabled = status, for the jobs of a set of names *)
set_enabled(registry, names, status) ==
    [i \in 1..Len(registry) |->
        IF registry[i].name \in names /\ registry[i].interval > 0
        THEN [registry[i] EXCEPT !.enabled = status] ELSE registry[i]]

(* the words the commands know *)
Slash_sleep == <<"/", "s", "l", "e", "e", "p">>
Slash_stop == <<"/", "s", "t", "o", "p">>
Slash_start == <<"/", "s", "t", "a", "r", "t">>
Slash_run_jobs == <<"/", "r", "u", "n", "_", "j", "o", "b", "s">>
Word_non_daily == <<"n", "o", "n", "-", "d", "a", "i", "l", "y">>
Word_up_check == <<"u", "p", "_", "c", "h", "e", "c", "k">>

(* str.split(sep) for a separator of one character *)
RECURSIVE split(_, _)
split(str, sep) ==
    IF \A i \in 1..Len(str) : str[i] # sep THEN <<str>>
    ELSE LET i == CHOOSE i \in 1..Len(str) :
                      str[i] = sep /\ \A j \in 1..(i - 1) : str[j] # sep
         IN <<SubSeq(str, 1, i - 1)>> \o split(SubSeq(str, i + 1, Len(str)), sep)

(* text.split(command)[1].strip().split(" "): the words between the first   *)
(* occurrence of the command and the next; no word gives [""]               *)
args_after(text, command) ==
    LET first == CHOOSE i \in 1..Len(text) :
                     text[i] = command /\ \A j \in 1..(i - 1) : text[j] # command
        rest == SubSeq(text, first + 1, Len(text))
        upto == IF \E i \in 1..Len(rest) : rest[i] = command
                THEN (CHOOSE i \in 1..Len(rest) :
                         rest[i] = command /\ \A j \in 1..(i - 1) : rest[j] # command) - 1
                ELSE Len(rest)
    IN IF upto = 0 THEN << <<>> >> ELSE SubSeq(rest, 1, upto)

(* str.isdigit(): true of the decimal digits and of the superscript digits, *)
(* which int() refuses                                                      *)
DecimalDigits == {"0", "1", "2", "3", "4", "5", "6", "7", "8", "9"}
SuperscriptDigits == {"^2"}

isdigit(t) == t # <<>> /\ \A i \in 1..Len(t) : t[i] \in DecimalDigits \cup SuperscriptDigits

digit_value(c) ==
    CASE c = "0" -> 0 [] c = "1" -> 1 [] c = "2" -> 2 [] c = "3" -> 3 [] c = "4" -> 4
      [] c = "5" -> 5 [] c = "6" -> 6 [] c = "7" -> 7 [] c = "8" -> 8 [] c = "9" -> 9

(* int(t), for a t that isdigit() accepted: [raised, value] *)
RECURSIVE int(_)
int(t) ==
    IF \E i \in 1..Len(t) : t[i] \notin DecimalDigits
    THEN [raised |-> "ValueError", value |-> 0]
    ELSE IF Len(t) = 1 THEN [raised |-> "none", value |-> digit_value(t[1])]
    ELSE [raised |-> "none",
          value |-> 10 * int(SubSeq(t, 1, Len(t) - 1)).value + digit_value(t[Len(t)])]

(* sleep_time, lines 791-800 *)
time_dict ==
    (<<"s">> :> 1) @@ (<<"s", "e", "c", "o", "n", "d", "s">> :> 1)
    @@ (<<"m">> :> 60) @@ (<<"m", "i", "n", "u", "t", "e", "s">> :> 60)
    @@ (<<"h">> :> 3600) @@ (<<"h", "o", "u", "r", "s">> :> 3600)
    @@ (<<"d">> :> 86400) @@ (<<"d", "a", "y", "s">> :> 86400)

(* time_dict.get(name, 0) *)
time_dict_get(name) == IF name \in DOMAIN time_dict THEN time_dict[name] ELSE 0

(* sleep_time, lines 802-808: the loop over args_list, from word i on.      *)
(* acc = [raised, total_sleep]                                              *)
RECURSIVE total_sleep_loop(_, _, _)
total_sleep_loop(args_list, i, acc) ==
    IF i > Len(args_list) THEN acc
    ELSE LET _arg == args_list[i]
             parts == split(_arg, "=")
         IN  IF Len(parts) = 1
             THEN \* "=" not in _arg
                  total_sleep_loop(args_list, i + 1, acc)
             ELSE IF Len(parts) # 2
             THEN \* line 806: name, t = _arg.split("=")
                  [acc EXCEPT !.raised = "ValueError"]
             ELSE IF isdigit(parts[2]) /\ int(parts[2]).raised # "none"
             THEN \* line 807: int(t)
                  [acc EXCEPT !.raised = "ValueError"]
             ELSE total_sleep_loop(args_list, i + 1,
                    [acc EXCEPT !.total_sleep =
                        @ + time_dict_get(parts[1])
                            * (IF isdigit(parts[2]) THEN int(parts[2]).value ELSE 0)])

(* sleep_time, lines 787-811: [raised, total_sleep] of a message *)
total_sleep(text) ==
    LET r == total_sleep_loop(args_after(text, Slash_sleep), 1,
                              [raised |-> "none", total_sleep |-> 0])
    IN  IF r.raised # "none" THEN r
        ELSE [r EXCEPT !.total_sleep = IF @ # 0 THEN @ ELSE time_dict[<<"d">>]]

(* stop_logs, lines 762-780: the jobs the message disables *)
stop_names(text) ==
    LET args_list == IF \E i \in 1..Len(text) : text[i] = Slash_stop
                     THEN args_after(text, Slash_stop) ELSE <<>>
    IN  IF \E i \in 1..Len(args_list) : args_list[i] = Word_non_daily
        THEN {"check_system_health", "server_up_checks"}
        ELSE IF \E i \in 1..Len(args_list) : args_list[i] = Word_up_check
        THEN {"server_up_checks"}
        ELSE RepeatingJobs

(* What a command leaves behind for the observer: the message and its time, *)
(* the exception that left the handler, the sleep it computed, the jobs     *)
(* whose callback it called with the outcome of each call, and whether a    *)
(* wake job was scheduled                                                   *)
NoCmd == [op |-> "none", at |-> 0, text |-> <<>>, raised |-> "none", total_sleep |-> 0,
          invoked |-> <<>>, scheduled |-> FALSE]

Cmd(op, text, exc, total, invoked, scheduled) ==
    [op |-> op, at |-> now, text |-> text, raised |-> exc, total_sleep |-> total,
     invoked |-> invoked, scheduled |-> scheduled]

(* stop_logs: [raised, jobs]; the reply is sent after the flags are set *)
stop_logs_run(text, registry, reply_ok) ==
    [raised |-> IF reply_ok THEN "none" ELSE "NotificationError",
     jobs |-> set_enabled(registry, stop_names(text), FALSE)]

(* the commands leave the clock, the files and the cursors alone *)
CommandFrame ==
    UNCHANGED <<heartbeat_wait_period_dic, links_to_check_uptime,
                last_check_timestamp, general_logs, health_logs, writes,
                now, ticks, store_vars, inv>>

(* a message of an operator arrives *)
Received ==
    /\ commands < MaxCommands
    /\ commands' = commands + 1

(* a command that calls no callback *)
NoCallback ==
    /\ out' = NoOut
    /\ UNCHANGED <<hb_times, heartbeat_last_message_dic, last_general_log_check_ts,
                   reported>>

(* stop_logs, as the handler of /stop *)
StopTexts == { <<Slash_stop>>, <<Slash_stop, Word_non_daily>>, <<Slash_stop, Word_up_check>> }

stop_logs ==
    \E text \in StopTexts, is_admin \in BOOLEAN, reply_ok \in BOOLEAN :
    \E r \in {stop_logs_run(text, jobs, reply_ok)} :
        /\ jobs' = IF is_admin THEN r.jobs ELSE jobs
        /\ cmd' = Cmd("stop_logs", text, IF is_admin THEN r.raised ELSE "not admin",
                      0, <<>>, FALSE)
        /\ NoCallback
        /\ Received
        /\ CommandFrame

(* lines 816-818: job.schedule_removal() for the jobs named _start_logs *)
remove_wake_jobs(registry) == SelectSeq(registry, LAMBDA job : job.name # "_start_logs")

(* line 821: job_queue.run_once(_start_logs, total_sleep) *)
run_once_start_logs(registry, total) ==
    Append(registry, [name |-> "_start_logs", enabled |-> TRUE,
                      next_t |-> now + total, interval |-> 0])

(* the messages an operator sends to /sleep *)
SleepTexts ==
    { <<Slash_sleep>>,
      <<Slash_sleep, <<"d", "=", "1">>, <<"h", "=", "2">> >>,
      <<Slash_sleep, <<"m", "=", "1", "4", "4", "0">> >>,
      <<Slash_sleep, <<"d", "a", "y", "s", "=", "1">> >>,
      <<Slash_sleep, <<"x", "=", "5">> >>,
      <<Slash_sleep, <<"h", "=", "-", "1">> >>,
      <<Slash_sleep, <<"h">> >>,
      <<Slash_sleep, <<"d", "=", "1", "=", "2">> >>,
      <<Slash_sleep, <<"h", "=", "^2">> >>,
      <<Slash_sleep, Word_non_daily, <<"d", "=", "1">> >>,
      <<Slash_sleep, Word_up_check, <<"d", "=", "1">> >>,
      <<Slash_sleep, <<"d", "=", "1">>, Slash_stop, Word_non_daily>> }

(* sleep_time.  stop_ok, reply_ok: whether the notifier accepts the reply   *)
(* of stop_logs and the reply of sleep_time.                                *)
sleep_time ==
    \E text \in SleepTexts :
    \E total \in {total_sleep(text)} :
    \E is_admin \in BOOLEAN, stop_ok \in BOOLEAN, reply_ok \in BOOLEAN :
    \E stopped \in {stop_logs_run(text, remove_wake_jobs(jobs), stop_ok)} :
        /\ IF ~is_admin
           THEN /\ cmd' = Cmd("sleep_time", text, "not admin", 0, <<>>, FALSE)
                /\ UNCHANGED jobs
           ELSE IF total.raised # "none"
           THEN \* lines 806, 807: nothing was done yet
                /\ cmd' = Cmd("sleep_time", text, total.raised, 0, <<>>, FALSE)
                /\ UNCHANGED jobs
           ELSE IF stopped.raised # "none"
           THEN \* line 820: the wake job is removed, the flags are set
                /\ cmd' = Cmd("sleep_time", text, stopped.raised,
                              total.total_sleep, <<>>, FALSE)
                /\ jobs' = stopped.jobs
           ELSE /\ cmd' = Cmd("sleep_time", text,
                              IF reply_ok THEN "none" ELSE "NotificationError",
                              total.total_sleep, <<>>, TRUE)
                /\ jobs' = run_once_start_logs(stopped.jobs, total.total_sleep)
        /\ NoCallback
        /\ Received
        /\ CommandFrame

(* What a call of a callback meets: the status of each link, the alerts    *)
(* daily_module.main returns (with no custom heartbeat), and whether the    *)
(* notifier accepts the heartbeat and the alarm                             *)
Meets ==
    [status : [1..Len(links_to_check_uptime) -> LinkStatus],
     alerts : DailyAlerts, heartbeat_messages : {<<>>},
     hb_ok : BOOLEAN, alarm_ok : BOOLEAN]

(* job.callback(context) of a repeating job: [o, cursor, included] *)
callback(name, m) ==
    LET idle == [cursor |-> last_general_log_check_ts, included |-> <<>>] IN
    CASE name = "check_system_health" ->
            [o |-> callback_check_system_health(m.hb_ok, m.alarm_ok)] @@ idle
      [] name = "server_up_checks" ->
            [o |-> callback_server_up_checks(m.status, m.hb_ok, m.alarm_ok)] @@ idle
      [] name = "daily_checks" ->
            [o |-> callback_daily_checks(m.alerts, m.heartbeat_messages,
                                         m.hb_ok, m.alarm_ok)] @@ idle
      [] name = "check_general_logs" ->
            callback_check_general_logs(m.hb_ok, m.alarm_ok)

(* the ways a call of the callback can go, in the state it is called in *)
Outcomes(name) == {callback(name, m) : m \in Meets}

(* The state the callbacks of one command leave.  Each callback reads and   *)
(* writes the entry of its own category and its own cursor, and no two jobs *)
(* of the queue share a callback, so each meets the state the command found *)
CallbacksRan(outs) ==
    /\ heartbeat_last_message_dic' =
           [c \in DOMAIN heartbeat_last_message_dic |->
               IF \E i \in 1..Len(outs) : outs[i].o.cat = c
               THEN outs[CHOOSE i \in 1..Len(outs) : outs[i].o.cat = c].o.last[c]
               ELSE heartbeat_last_message_dic[c]]
    /\ last_general_log_check_ts' =
           IF \E i \in 1..Len(outs) : outs[i].o.op = "check_general_logs"
           THEN outs[CHOOSE i \in 1..Len(outs) : outs[i].o.op = "check_general_logs"].cursor
           ELSE last_general_log_check_ts
    /\ reported' =
           IF \E i \in 1..Len(outs) : outs[i].o.op = "check_general_logs"
           THEN reported
                \o outs[CHOOSE i \in 1..Len(outs) : outs[i].o.op = "check_general_logs"].included
           ELSE reported
    /\ hb_times' =
           [c \in Categories |->
               IF \E i \in 1..Len(outs) : outs[i].o.cat = c
               THEN LET o == outs[CHOOSE i \in 1..Len(outs) : outs[i].o.cat = c].o
                    IN LastTwo(hb_times[c] \o [k \in 1..Len(Delivered(o.hb_sent)) |-> now])
               ELSE hb_times[c]]
    /\ out' = IF outs = <<>> THEN NoOut ELSE Record(outs[Len(outs)].o)

(* the callbacks a command called, with the exception that left each *)
Invoked(outs) == [i \in 1..Len(outs) |-> [name |-> outs[i].o.op, raised |-> outs[i].o.raised]]

(* _start_logs, lines 752-758: the four jobs are enabled, then              *)
(* job_check_fetch_daily.run(application) calls daily_checks once; Job.run  *)
(* hands an exception of the callback to the error handlers                 *)
start_logs_run(registry) == set_enabled(registry, RepeatingJobs, TRUE)

(* start_logs, as the handler of /start *)
start_logs ==
    \E daily \in Outcomes("daily_checks") :
    \E is_admin \in BOOLEAN, reply_ok \in BOOLEAN :
        /\ IF ~is_admin
           THEN /\ cmd' = Cmd("start_logs", <<Slash_start>>, "not admin", 0, <<>>, FALSE)
                /\ NoCallback
                /\ UNCHANGED jobs
           ELSE IF ~reply_ok
           THEN \* line 749: send_message raised
                /\ cmd' = Cmd("start_logs", <<Slash_start>>, "NotificationError",
                              0, <<>>, FALSE)
                /\ NoCallback
                /\ UNCHANGED jobs
           ELSE /\ cmd' = Cmd("start_logs", <<Slash_start>>, "none", 0,
                              Invoked(<<daily>>), FALSE)
                /\ CallbacksRan(<<daily>>)
                /\ jobs' = start_logs_run(jobs)
        /\ Received
        /\ CommandFrame

(* The job queue runs the one-shot job of line 821 when its time has come: *)
(* _start_logs is called with the context, and the job leaves the queue.    *)
wake_up_job ==
    \E i \in 1..Len(jobs) :
    \E daily \in Outcomes("daily_checks") :
        /\ jobs[i].name = "_start_logs"
        /\ jobs[i].enabled
        /\ jobs[i].next_t <= now
        /\ cmd' = Cmd("wake_up_job", <<>>, "none", 0,
                      <<[name |-> "_start_logs", raised |-> "none"]>>
                      \o Invoked(<<daily>>), FALSE)
        /\ CallbacksRan(<<daily>>)
        /\ jobs' = start_logs_run(SubSeq(jobs, 1, i - 1) \o SubSeq(jobs, i + 1, Len(jobs)))
        /\ UNCHANGED commands
        /\ CommandFrame

(* run_jobs, line 668 *)
context_only_list == {"daily_checks", "check_system_health", "server_up_checks", "check_general_logs"}

caught_only_type_error(exc) == exc = "TypeError"

(* run_jobs, lines 675-676: except Exception *)
caught_by_run_jobs(exc) == exc # "none"

(* run_jobs, lines 669-676: the loop over job_queue.jobs(), from job i on.  *)
(* A job of context_only_list is called with the context; any other, such   *)
(* as _start_logs(update), with (update, context), which is a TypeError for *)
(* a callback of one parameter.  What a callback did before an exception    *)
(* left it stays done.  goes: how the call of each callback goes;           *)
(* acc = [raised, outs, invoked]                                            *)
RECURSIVE run_jobs_loop(_, _, _, _)
run_jobs_loop(registry, i, goes, acc) ==
    IF i > Len(registry) THEN acc
    ELSE LET name == registry[i].name
             known == name \in context_only_list
             exc == IF known THEN goes[name].o.raised ELSE "TypeError"
             after == [raised |-> "none",
                       outs |-> IF known THEN Append(acc.outs, goes[name]) ELSE acc.outs,
                       invoked |-> Append(acc.invoked, [name |-> name, raised |-> exc])]
         IN  IF exc = "none" \/ caught_by_run_jobs(exc)
             THEN run_jobs_loop(registry, i + 1, goes, after)
             ELSE [after EXCEPT !.raised = exc]

(* run_jobs *)
run_jobs ==
    \E ways \in {<<Outcomes("check_system_health"), Outcomes("server_up_checks"),
                   Outcomes("daily_checks"), Outcomes("check_general_logs")>>} :
    \E h \in ways[1], u \in ways[2], d \in ways[3], g \in ways[4] :
    \E r \in {run_jobs_loop(jobs, 1,
                  [check_system_health |-> h, server_up_checks |-> u,
                   daily_checks |-> d, check_general_logs |-> g],
                  [raised |-> "none", outs |-> <<>>, invoked |-> <<>>])} :
    \E is_admin \in BOOLEAN :
        /\ IF ~is_admin
           THEN /\ cmd' = Cmd("run_jobs", <<Slash_run_jobs>>, "not admin", 0, <<>>, FALSE)
                /\ NoCallback
           ELSE /\ cmd' = Cmd("run_jobs", <<Slash_run_jobs>>, r.raised, 0, r.invoked, FALSE)
                /\ CallbacksRan(r.outs)
        /\ UNCHANGED jobs
        /\ Received
        /\ CommandFrame

----------------------------------------------------------------------------
(* systems_monitor_bot.py: server_up_checks, await by await.  The job queue *)
(* runs a job as a task of the event loop and run_jobs awaits the callback  *)
(* in the task of its update, so that two calls of the callback can be in   *)
(* progress: a call keeps the loop until it awaits a send of the notifier,  *)
(* and goes on when the send is over.                                       *)

Invocations == {"job_queue", "run_jobs"}

IdleInvocation == [pc |-> "idle", my_alert_string |-> <<>>, heartbeat_message |-> <<>>,
                   ts_now |-> 0]

NoInvocations == [k \in Invocations |-> IdleInvocation]

(* the variables a call of server_up_checks leaves alone *)
UpChecksFrame ==
    UNCHANGED <<heartbeat_wait_period_dic, links_to_check_uptime,
                last_check_timestamp, last_general_log_check_ts,
                general_logs, health_logs, writes, now, ticks, store_vars,
                jobs, cmd, commands, reported>>

(* lines 644-651: ts_now is read, the gate is asked, and a call that passes *)
(* it awaits print_to_heartbeat_chat; a call that does not returns          *)
up_checks_gate(k, my_alert_string, heartbeat_message, alarm) ==
    IF "up_checks" \notin DOMAIN heartbeat_last_message_dic
    THEN /\ inv' = [inv EXCEPT ![k] = IdleInvocation]
         /\ Observe("server_up_checks", "up_checks", "KeyError",
                    <<>>, my_alert_string, <<>>, alarm)
    ELSE IF heartbeat_due(heartbeat_last_message_dic["up_checks"],
                          wait_period_get("up_checks"), now)
    THEN /\ inv' = [inv EXCEPT ![k] = [pc |-> "await heartbeat",
                                       my_alert_string |-> my_alert_string,
                                       heartbeat_message |-> heartbeat_message,
                                       ts_now |-> now]]
         /\ out' = NoOut
         /\ UNCHANGED hb_times
    ELSE /\ inv' = [inv EXCEPT ![k] = IdleInvocation]
         /\ Observe("server_up_checks", "up_checks", "none",
                    <<>>, my_alert_string, <<>>, alarm)

(* lines 623-642: the links are fetched; a call with an alarm text awaits   *)
(* its send                                                                 *)
up_checks_begin(k) ==
    \E status \in [1..Len(links_to_check_uptime) -> LinkStatus] :
        LET n == Len(links_to_check_uptime)
            my_alert_string ==
                SelectSeq([i \in 1..n |-> [link |-> links_to_check_uptime[i],
                                           status |-> status[i]]],
                          LAMBDA l : l.status # "up")
            successes == Cardinality({i \in 1..n : status[i] = "up"})
            heartbeat_message ==
                <<[successes |-> successes, of |-> n]>>
                \o [i \in 1..n |-> [link |-> links_to_check_uptime[i],
                                    status |-> status[i]]]
        IN
        /\ inv[k].pc = "idle"
        /\ IF my_alert_string # <<>>
           THEN /\ inv' = [inv EXCEPT ![k] = [pc |-> "await alarm",
                                              my_alert_string |-> my_alert_string,
                                              heartbeat_message |-> heartbeat_message,
                                              ts_now |-> 0]]
                /\ out' = NoOut
                /\ UNCHANGED hb_times
           ELSE up_checks_gate(k, my_alert_string, heartbeat_message, <<>>)
        /\ UNCHANGED heartbeat_last_message_dic
        /\ UpChecksFrame

(* line 642 is over: the send raised, or the call goes on to the gate *)
up_checks_alarm_sent(k) ==
    \E alarm_ok \in BOOLEAN :
        LET alarm == <<[text |-> inv[k].my_alert_string, ok |-> alarm_ok]>> IN
        /\ inv[k].pc = "await alarm"
        /\ IF ~alarm_ok
           THEN /\ inv' = [inv EXCEPT ![k] = IdleInvocation]
                /\ Observe("server_up_checks", "up_checks", "NotificationError",
                           <<>>, inv[k].my_alert_string, <<>>, alarm)
           ELSE up_checks_gate(k, inv[k].my_alert_string, inv[k].heartbeat_message, alarm)
        /\ UNCHANGED heartbeat_last_message_dic
        /\ UpChecksFrame

(* line 651 is over; line 652 records the ts_now read at line 644 *)
up_checks_heartbeat_sent(k) ==
    \E hb_ok \in BOOLEAN :
        /\ inv[k].pc = "await heartbeat"
        /\ inv' = [inv EXCEPT ![k] = IdleInvocation]
        /\ heartbeat_last_message_dic' =
               [heartbeat_last_message_dic EXCEPT !["up_checks"] = inv[k].ts_now]
        /\ Observe("server_up_checks", "up_checks", "none",
                   inv[k].heartbeat_message, inv[k].my_alert_string,
                   print_to_heartbeat_chat(inv[k].heartbeat_message, hb_ok),
                   IF inv[k].my_alert_string = <<>> THEN <<>>
                   ELSE <<[text |-> inv[k].my_alert_string, ok |-> TRUE]>>)
        /\ UpChecksFrame

----------------------------------------------------------------------------
(* The environment of the bot: the producers' files arrive in bot_directory, *)
(* and time passes.                                                          *)

MaxWrites == 1

GeneralRecords == { [status |-> "ok"], [error |-> "boom"] }

HealthRecords == { [disk_usage |-> 95], [disk_usage |-> 97], [cpu |-> 10] }

(* a health entry reaches the bot within the second it was stamped in; the *)
(* file of a general log may be pushed a second after an entry was stamped  *)
Lags == {0}
GeneralLags == {0, 1}

LastTime(entries) == IF entries = <<>> THEN -1 ELSE entries[Len(entries)].key.t

(* a producer's log_to_bot entry, stamped at t, arrives in general file i *)
WriteGeneral ==
    \E i \in 1..Len(general_logs), lag \in GeneralLags, us \in USecs, data \in GeneralRecords :
        /\ writes < MaxWrites
        /\ general_logs[i].json_ok
        /\ now - lag > LastTime(general_logs[i].entries)
        /\ general_logs' = [general_logs EXCEPT ![i].entries =
                              Append(@, [key |-> isoformat(now - lag, us), data |-> data])]
        /\ writes' = writes + 1
        /\ out' = NoOut
        /\ UNCHANGED <<hb_times, heartbeat_wait_period_dic, heartbeat_last_message_dic,
                       links_to_check_uptime, last_check_timestamp,
                       last_general_log_check_ts, health_logs, now, ticks, store_vars, sched_vars>>

(* a producer's health entry, stamped at t, arrives in health file i *)
WriteHealth ==
    \E i \in 1..Len(health_logs), lag \in Lags, us \in USecs, data \in HealthRecords :
        /\ writes < MaxWrites
        /\ now - lag > LastTime(health_logs[i].entries)
        /\ health_logs' = [health_logs EXCEPT
                              ![i].entries = Append(@, [key |-> isoformat(now - lag, us),
                                                        data |-> data]),
                              ![i].mtime = now]
        /\ writes' = writes + 1
        /\ out' = NoOut
        /\ UNCHANGED <<hb_times, heartbeat_wait_period_dic, heartbeat_last_message_dic,
                       links_to_check_uptime, last_check_timestamp,
                       last_general_log_check_ts, general_logs, now, ticks, store_vars, sched_vars>>

BotSteps == {1, 3600}

(* time passes between two runs of the handlers *)
Tick(steps) ==
    /\ ticks < MaxTicks
    /\ \E d \in steps : now' = now + d
    /\ ticks' = ticks + 1
    /\ out' = NoOut
    /\ UNCHANGED <<hb_times, heartbeat_wait_period_dic, heartbeat_last_message_dic,
                   links_to_check_uptime, last_check_timestamp,
                   last_general_log_check_ts, general_logs, health_logs, writes,
                   store_vars, sched_vars>>

TickBot == Tick(BotSteps)

TickSecond == Tick({1})

(* time passes until a one-shot job of the queue is to run *)
TickToJob ==
    /\ \E i \in 1..Len(jobs) : jobs[i].interval = 0 /\ jobs[i].next_t > now
    /\ Tick({jobs[i].next_t - now :
                i \in {k \in 1..Len(jobs) : jobs[k].interval = 0 /\ jobs[k].next_t > now}})

----------------------------------------------------------------------------
(* Initial states *)

FullConfig == [c \in Categories |-> 3600]

OneLink == <<"https://node.example">>

NoEntries(server) == [server |-> server, json_ok |-> TRUE, entries |-> <<>>]

(* a general_logs file whose content is not JSON *)
Malformed(server) == [server |-> server, json_ok |-> FALSE, entries |-> <<>>]

Fresh(server) == [server |-> server, mtime |-> StartTime, entries |-> <<>>]

(* a general_logs file and a health_logs file found in bot_directory, each  *)
(* holding one entry stamped when the bot started                           *)
StartKey == [fmt |-> "iso_us", t |-> StartTime, us |-> 500000]

GeneralFileAtStart(server, data) ==
    [server |-> server, json_ok |-> TRUE, entries |-> <<[key |-> StartKey, data |-> data]>>]

HealthFileAtStart(server, data) ==
    [server |-> server, mtime |-> StartTime,
     entries |-> <<[key |-> StartKey, data |-> data]>>]

(* a health_logs file holding a record without the monitored field, stamped *)
(* one second before the bot started, and a later record with it            *)
EarlierKey == [fmt |-> "iso_us", t |-> StartTime - 1, us |-> 500000]

HealthFileWithGap(server, data) ==
    [server |-> server, mtime |-> StartTime,
     entries |-> <<[key |-> EarlierKey, data |-> [cpu |-> 10]],
                   [key |-> StartKey, data |-> data]>>]

(* lines 76-90: the state of the module once it is imported, for a config   *)
(* file, a links file and a bot_directory                                   *)
InitBotVars(configs, links, general_files, health_files) ==
    /\ heartbeat_wait_period_dic \in configs
    /\ heartbeat_last_message_dic =
           [c \in DOMAIN heartbeat_wait_period_dic |-> heartbeat_start_time]
    /\ links_to_check_uptime \in links
    /\ last_check_timestamp = 0
    /\ last_general_log_check_ts = 0
    /\ general_logs \in general_files
    /\ health_logs \in health_files
    /\ writes = 0
    /\ out = NoOut
    /\ hb_times = [c \in Categories |-> <<>>]
    /\ reported = <<>>
    /\ jobs = RegisteredJobs
    /\ cmd = NoCmd
    /\ commands = 0
    /\ inv = NoInvocations

InitStore ==
    /\ now = StartTime
    /\ ticks = 0
    /\ InitStoreVars
    /\ InitBotVars({FullConfig}, {<<>>}, {<<>>}, {<<>>})

NextStore ==
    \/ \E p \in Procs : log_to_bot_begin(p)
    \/ \E p \in Procs : log_to_bot_load(p)
    \/ \E p \in Procs : log_to_bot_save(p)
    \/ \E p \in Procs : prune_read(p)
    \/ \E p \in Procs : prune_save(p)
    \/ TickStore

(* the producer host: processes appending to and pruning one log file *)
SpecStore == InitStore /\ [][NextStore]_vars

IdleStoreVars ==
    /\ file = [exists |-> FALSE, data |-> EmptyStore]
    /\ pc = [p \in Procs |-> "idle"]
    /\ ts = [p \in Procs |-> NoKey]
    /\ data_dict = [p \in Procs |-> NoRecord]
    /\ total_report = [p \in Procs |-> EmptyStore]
    /\ finished = {}
    /\ ops = 0
    /\ security_file = [exists |-> FALSE, data |-> EmptyStore]
    /\ calls = <<>>

InitBotAt(first_runs, configs, links, general_files, health_files) ==
    /\ now \in first_runs
    /\ ticks = 0
    /\ IdleStoreVars
    /\ InitBotVars(configs, links, general_files, health_files)

InitBot(configs, links, general_files, health_files) ==
    InitBotAt({StartTime}, configs, links, general_files, health_files)

(* the heartbeat gate: the four jobs, run one at a time, for every config,  *)
(* the first of them a wait period after the bot started                    *)
InitHeartbeat ==
    InitBotAt({StartTime + 3600}, WaitConfigs, {OneLink},
            {<<GeneralFileAtStart("alpha", [status |-> "ok", error |-> "boom"])>>},
            {<<HealthFileAtStart("alpha", [disk_usage |-> 97])>>})

NextHeartbeat ==
    \/ check_general_logs
    \/ check_system_health
    \/ server_up_checks
    \/ daily_checks
    \/ TickSecond

SpecHeartbeat == InitHeartbeat /\ [][NextHeartbeat]_vars

(* the general-log scan, entries arriving between scans *)
InitGeneral ==
    InitBot({FullConfig}, {<<>>},
            { <<NoEntries("alpha"), NoEntries("beta")>>,
              <<GeneralFileAtStart("alpha", [status |-> "ok", error |-> "boom"]),
                NoEntries("beta")>>,
              <<GeneralFileAtStart("alpha", [status |-> "ok", error |-> "boom"]),
                Malformed("beta")>> },
            {<<>>})

NextGeneral ==
    \/ check_general_logs
    \/ WriteGeneral
    \/ TickBot

SpecGeneral == InitGeneral /\ [][NextGeneral]_vars

(* the cursor commands of an operator, between general-log scans *)
InitCommands ==
    InitBot({FullConfig}, {<<>>},
            { <<GeneralFileAtStart("alpha", [status |-> "ok", error |-> "boom"]),
                NoEntries("beta")>> },
            {<<>>})

NextCommands ==
    \/ check_general_logs
    \/ reset
    \/ move_to_end
    \/ TickBot

SpecCommands == InitCommands /\ [][NextCommands]_vars

(* the health evaluation and the cursor commands *)
InitHealth ==
    InitBot({FullConfig}, {<<>>}, {<<>>},
            { <<Fresh("alpha")>>,
              <<HealthFileAtStart("alpha", [disk_usage |-> 97])>>,
              <<HealthFileAtStart("alpha", [disk_usage |-> 95])>>,
              <<HealthFileWithGap("alpha", [disk_usage |-> 95])>> })

NextHealth ==
    \/ check_system_health
    \/ reset
    \/ move_to_end
    \/ WriteHealth
    \/ TickBot

SpecHealth == InitHealth /\ [][NextHealth]_vars

(* the job queue and the commands of an operator on it *)
InitScheduler ==
    InitBot({FullConfig}, {<<>>},
            {<<GeneralFileAtStart("alpha", [status |-> "ok", error |-> "boom"])>>},
            {<<Fresh("alpha")>>})

NextScheduler ==
    \/ sleep_time
    \/ stop_logs
    \/ start_logs
    \/ run_jobs
    \/ wake_up_job
    \/ TickToJob

SpecScheduler == InitScheduler /\ [][NextScheduler]_vars

(* the up-check job alone, for a links file with one link and with none *)
InitUpChecks ==
    InitBotAt({StartTime + 3600}, WaitConfigs, {<<>>, OneLink}, {<<>>}, {<<>>})

NextUpChecks ==
    \/ server_up_checks
    \/ TickSecond

SpecUpChecks == InitUpChecks /\ [][NextUpChecks]_vars

(* two calls of server_up_checks in progress *)
InitOverlap ==
    InitBotAt({StartTime + 3600}, {FullConfig}, {<<>>, OneLink}, {<<>>}, {<<>>})

NextOverlap ==
    \/ \E k \in Invocations : up_checks_begin(k)
    \/ \E k \in Invocations : up_checks_alarm_sent(k)
    \/ \E k \in Invocations : up_checks_heartbeat_sent(k)
    \/ TickSecond

SpecOverlap == InitOverlap /\ [][NextOverlap]_vars

(* the health evaluation over two sources of bot_directory, in either order *)
(* of os.listdir: one whose file holds {} or nothing (both are decoded as   *)
(* the empty dict, line 440), or two that hold a record each                *)
InitSources ==
    InitBot({FullConfig}, {<<>>}, {<<>>},
            { <<Fresh("alpha"), HealthFileAtStart("beta", [disk_usage |-> 97])>>,
              <<HealthFileAtStart("beta", [disk_usage |-> 97]), Fresh("alpha")>>,
              <<HealthFileAtStart("alpha", [disk_usage |-> 95]),
                HealthFileAtStart("beta", [disk_usage |-> 97])>> })

NextSources ==
    \/ check_system_health
    \/ WriteHealth
    \/ TickBot

SpecSources == InitSources /\ [][NextSources]_vars

----------------------------------------------------------------------------
(* utilities.py: the calls of one process, each run from its first line to  *)
(* its return or to the exception that leaves it.  f is the file at         *)
(* log_file_path, t the clock, us the microsecond of utcnow().              *)

(* log_to_bot: [file, raised, key] *)
log_to_bot(input, us, f, t) ==
    LET d == process_input_data(input)
        key == isoformat(t, us)
        loaded == check_log_file(f)
        saved == save_logs(Put(loaded.data, key, d.val), loaded)
    IN  IF d.raised # "none"
        THEN [file |-> f, raised |-> d.raised, key |-> NoKey]
        ELSE [file |-> saved.file, raised |-> saved.raised, key |-> key]

(* delete_entries_older_than_x_days: [file, raised] *)
delete_entries_older_than_x_days(f, t, days) ==
    LET read == check_log_file(f)
        saved == save_logs(Restrict(read.data, prune_keeps(read.data, t, days)), read)
    IN  [file |-> saved.file, raised |-> saved.raised]

(* line 153: the entry run() hands to log_to_bot when the command failed *)
dic_error ==
    [kind |-> "dict", val |-> [error |-> "while trying to run command"], text |-> ""]

(* run: cmd_ok is whether subprocess.run(cmd, check=True) returned.         *)
(* general is the file GENERAL_LOGFILE names.  [file, raised, logged]       *)
run(cmd_ok, general, t, us) ==
    IF cmd_ok THEN [file |-> general, raised |-> "none", logged |-> FALSE]
    ELSE LET r == log_to_bot(dic_error, us, general, t) IN
         [file |-> r.file, raised |-> r.raised, logged |-> TRUE]

(* The files of the producer host by path *)
Paths == {"general", "security"}

(* push_log, lines 181-190: the loop over name_to_file, from pair i on.     *)
(* acc = [raised, fs, events]: fs the files by path, events what was called *)
RECURSIVE push_log_loop(_, _, _, _, _, _)
push_log_loop(name_to_file, i, transfer_ok, us, t, acc) ==
    IF i > Len(name_to_file) THEN acc
    ELSE LET pair == name_to_file[i]
             r == run(transfer_ok[i], acc.fs["general"], t, us[i])
             fs1 == [acc.fs EXCEPT !["general"] = r.file]
             ev1 == acc.events
                    \o <<[ev |-> "transfer", name |-> pair.name, path |-> pair.path,
                          ok |-> transfer_ok[i]]>>
                    \o (IF r.logged
                        THEN <<[ev |-> "log_to_bot", name |-> pair.name,
                                path |-> "general", ok |-> r.raised = "none"]>>
                        ELSE <<>>)
             d == delete_entries_older_than_x_days(fs1[pair.path], t, log_life)
             fs2 == [fs1 EXCEPT ![pair.path] = d.file]
             ev2 == Append(ev1, [ev |-> "prune", name |-> pair.name, path |-> pair.path,
                                 ok |-> d.raised = "none"])
         IN  IF r.raised # "none"
             THEN [raised |-> r.raised, fs |-> fs1, events |-> ev1]
             ELSE IF d.raised # "none"
             THEN [raised |-> d.raised, fs |-> fs2, events |-> ev2]
             ELSE push_log_loop(name_to_file, i + 1, transfer_ok, us, t,
                                [raised |-> "none", fs |-> fs2, events |-> ev2])

(* push_log.  env: whether RSA_ID_PATH and REMOTE_PATH are set and whether  *)
(* the key file is on disk.                                                 *)
push_log(env, name_to_file, transfer_ok, us, fs, t) ==
    IF ~env.rsa_id_path \/ ~env.remote_directory_path
    THEN \* lines 174-176: skipping push to remote
         [raised |-> "none", fs |-> fs, events |-> <<>>]
    ELSE IF ~env.isfile
    THEN \* lines 178-179
         [raised |-> "Exception", fs |-> fs, events |-> <<>>]
    ELSE push_log_loop(name_to_file, 1, transfer_ok, us, t,
                       [raised |-> "none", fs |-> fs, events |-> <<>>])

Envs ==
    [rsa_id_path : BOOLEAN, remote_directory_path : BOOLEAN, isfile : BOOLEAN]

(* push_general_logs, push_health_logs, and both conventions in one call *)
GeneralPair == [name |-> "general_logs", path |-> "general"]
HealthPair == [name |-> "health_logs", path |-> "security"]
NameToFiles == { <<GeneralPair>>, <<HealthPair>>, <<HealthPair, GeneralPair>> }

(* What a call leaves behind for the observer *)
Call(op, input, key, before, after, raised, events) ==
    [op |-> op, at |-> now, input |-> input, key |-> key,
     before |-> before, after |-> after, raised |-> raised, events |-> events]

NoInput == [kind |-> "none", val |-> NoRecord, text |-> "", loads |-> "none"]

call_log_to_bot ==
    \E input \in Inputs, us \in USecs :
    \E r \in {log_to_bot(input, us, file, now)} :
        /\ file' = r.file
        /\ calls' = LastTwo(Append(calls,
                        Call("log_to_bot", input, r.key, file, r.file, r.raised, <<>>)))
        /\ UNCHANGED <<pc, ts, data_dict, total_report, finished, ops, security_file,
                       now, ticks, bot_vars, sched_vars>>

call_delete_entries_older_than_x_days ==
    \E r \in {delete_entries_older_than_x_days(file, now, log_life)} :
        /\ file' = r.file
        /\ calls' = LastTwo(Append(calls,
                        Call("prune", NoInput, NoKey, file, r.file, r.raised, <<>>)))
        /\ UNCHANGED <<pc, ts, data_dict, total_report, finished, ops, security_file,
                       now, ticks, bot_vars, sched_vars>>

call_push_log ==
    \E env \in Envs, name_to_file \in NameToFiles :
    \E transfer_ok \in [1..Len(name_to_file) -> BOOLEAN] :
    \E us \in [1..Len(name_to_file) -> USecs] :
    \E r \in {push_log(env, name_to_file, transfer_ok, us,
                       [general |-> file, security |-> security_file], now)} :
        /\ file' = r.fs["general"]
        /\ security_file' = r.fs["security"]
        /\ calls' = <<Call("push_log",
                           [env |-> env, name_to_file |-> name_to_file],
                           NoKey, file, file', r.raised, r.events)>>
        /\ UNCHANGED <<pc, ts, data_dict, total_report, finished, ops,
                       now, ticks, bot_vars, sched_vars>>

(* The log file one process finds: missing, or holding an entry older than  *)
(* the retention, one stamped log_life days before the start, a recent one  *)
CutoffKey == [fmt |-> "iso_us", t |-> StartTime - log_life * 24 * 3600, us |-> 500000]
RecentKey == [fmt |-> "epoch", t |-> StartTime - 1, us |-> 0]

AgedStore ==
    Put(Put(Put(EmptyStore, OldKey, [status |-> "ok"]),
            CutoffKey, [status |-> "ok"]),
        RecentKey, [error |-> "boom"])

ProducerFiles ==
    { [exists |-> FALSE, data |-> EmptyStore],
      [exists |-> TRUE,  data |-> AgedStore] }

InitCalls(files, security_files) ==
    /\ now = StartTime
    /\ ticks = 0
    /\ file \in files
    /\ security_file \in security_files
    /\ calls = <<>>
    /\ pc = [p \in Procs |-> "idle"]
    /\ ts = [p \in Procs |-> NoKey]
    /\ data_dict = [p \in Procs |-> NoRecord]
    /\ total_report = [p \in Procs |-> EmptyStore]
    /\ finished = {}
    /\ ops = 0
    /\ InitBotVars({FullConfig}, {<<>>}, {<<>>}, {<<>>})

(* one process appending to and pruning its log file, call after call *)
InitProducer == InitCalls(ProducerFiles, {[exists |-> FALSE, data |-> EmptyStore]})

NextProducer ==
    \/ call_log_to_bot
    \/ call_delete_entries_older_than_x_days
    \/ TickStore

SpecProducer == InitProducer /\ [][NextProducer]_vars

(* the replication step of a producer host *)
InitPush == InitCalls(ProducerFiles, ProducerFiles)

NextPush ==
    \/ call_push_log
    \/ TickStore

SpecPush == InitPush /\ [][NextPush]_vars

----------------------------------------------------------------------------
(* Properties of the producer host's log file, under SpecStore *)

AllIdle == \A p \in Procs : pc[p] = "idle"

AppendsOfTwoProcesses(a, b) ==
    /\ a.op = "append" /\ b.op = "append"
    /\ a.proc # b.proc
    /\ a.key # NoKey /\ b.key # NoKey /\ a.key # b.key

(* C1: when two processes have each appended one record under distinct      *)
(* timestamp keys to the same file, and both appends have come to an end    *)
(* (no prune having run), the file holds both records.                      *)
C1_NoLostUpdate ==
    \A a \in finished, b \in finished :
        ( /\ AppendsOfTwoProcesses(a, b)
          /\ AllIdle
          /\ \A x \in finished : x.op # "prune" )
        => /\ a.key \in DOMAIN file.data
           /\ b.key \in DOMAIN file.data

(* C2: when a prune and an append of another process have both come to an   *)
(* end, the appended record, if not older than the cutoff, is in the file.  *)
C2_AppendSurvivesPrune ==
    \A a \in finished, b \in finished :
        ( /\ a.op = "append" /\ a.key # NoKey
          /\ b.op = "prune" /\ a.proc # b.proc
          /\ AllIdle
          /\ a.key.t >= now - log_life * 24 * 3600 )
        => a.key \in DOMAIN file.data

----------------------------------------------------------------------------
(* Properties of the heartbeat gate, under SpecHeartbeat *)

(* C3: for every category, two heartbeat messages delivered to the          *)
(* heartbeat chat are at least the category's wait period apart.            *)
C3_OneHeartbeatPerPeriod ==
    \A c \in Categories :
        Len(hb_times[c]) = 2 =>
            hb_times[c][2] - hb_times[c][1] >= wait_period_get(c)

(* a step in which a heartbeat message for category c is handed to the notifier *)
HeartbeatSent(c) == out'.cat = c /\ out'.hb_sent # <<>>

(* C4: a heartbeat for category c is sent at time now only if               *)
(* lastSent[c] + waitPeriod[c] < now, and the send sets lastSent[c] = now,  *)
(* so that with waitPeriod[c] > 1 the gate is closed at now + 1.            *)
C4_GateStrictAndMarked ==
    [][ \A c \in Categories :
          HeartbeatSent(c) =>
            /\ c \in DOMAIN heartbeat_last_message_dic
            /\ heartbeat_last_message_dic[c] + heartbeat_wait_period_dic[c] < now
            /\ heartbeat_last_message_dic'[c] = now
            /\ (heartbeat_wait_period_dic[c] > 1 =>
                  ~(heartbeat_last_message_dic'[c] + heartbeat_wait_period_dic[c]
                      < now + 1)) ]_vars

(* a heartbeat was sent for c, and the call one second later sent none *)
C4_Witness ==
    \E c \in DOMAIN heartbeat_last_message_dic :
        /\ heartbeat_last_message_dic[c] > heartbeat_start_time
        /\ now = heartbeat_last_message_dic[c] + 1
        /\ heartbeat_wait_period_dic[c] > 1
        /\ out.op = "server_up_checks" /\ out.cat = c
        /\ out.raised = "none"
        /\ out.hb_sent = <<>>

(* C5: every non-empty alarm text a call builds is handed to the notifier   *)
(* in that call, whatever the state of the heartbeat gate.                  *)
C5_AlarmAlwaysSent ==
    out.alarm_text # <<>> => out.alarm_sent # <<>>

(* C6: for a category without an entry in the wait-period configuration the *)
(* gate does not fail.                                                      *)
C6_GateDefaultsForMissingCategory ==
    ( /\ out.op # "none"
      /\ out.cat \in Categories
      /\ out.cat \notin DOMAIN heartbeat_wait_period_dic )
    => out.raised # "KeyError"

----------------------------------------------------------------------------
(* Properties of the general-log cursor, under SpecGeneral and SpecCommands *)

(* C7: the general-log cursor never decreases, whatever the scans find.     *)
C7_CursorMonotonic ==
    [][last_general_log_check_ts' >= last_general_log_check_ts]_vars

(* a scan over two sources that found no new record, the cursor advanced *)
C7_Witness ==
    /\ out.op = "check_general_logs" /\ out.raised = "none"
    /\ Len(general_logs) = 2
    /\ out.hb_text = <<>> /\ out.alarm_text = <<>>
    /\ last_general_log_check_ts > 0

(* C8: after reset both cursors are 0, after move_to_end both are the       *)
(* current time.                                                            *)
C8_CommandsActOnEveryCursor ==
    [][ /\ (out'.op = "reset" /\ out'.raised = "none") =>
              (last_check_timestamp' = 0 /\ last_general_log_check_ts' = 0)
        /\ (out'.op = "move_to_end" /\ out'.raised = "none") =>
              (last_check_timestamp' = now /\ last_general_log_check_ts' = now)
      ]_vars

----------------------------------------------------------------------------
(* Properties of the health evaluation, under SpecHealth *)

(* the last handler was a health evaluation that built its texts *)
HealthEvaluated == out.op = "check_system_health" /\ out.hb_text # <<>>

AlarmLine(kind, server) ==
    \E i \in 1..Len(out.alarm_text) :
        out.alarm_text[i].kind = kind /\ out.alarm_text[i].file = server

AnyAlarmLine(server) ==
    \E i \in 1..Len(out.alarm_text) : out.alarm_text[i].file = server

HeartbeatLine(server, name, value) ==
    \E i \in 1..Len(out.hb_text) :
        out.hb_text[i] = [server |-> server, name |-> name, value |-> value]

MostRecent(entries) ==
    entries[CHOOSE i \in 1..Len(entries) :
                \A j \in 1..Len(entries) : entries[j].key.t <= entries[i].key.t]

SingleRecord(i) == Len(health_logs[i].entries) = 1

C10_WitnessAbove ==
    /\ HealthEvaluated
    /\ SingleRecord(1)
    /\ health_logs[1].entries[1].data = [disk_usage |-> 97]
    /\ AlarmLine("exceeds threshold", health_logs[1].server)
    /\ HeartbeatLine(health_logs[1].server, "disk_usage", 97)

(* C11: when the most recent record of a health source lacks the monitored  *)
(* field, the evaluation does not fail and its alarm text holds a           *)
(* 'not found' notice for the field and the source (every key of the       *)
(* source being a timestamp the bot parses).                                *)
C11_MissingFieldReported ==
    \A i \in 1..Len(health_logs) :
        ( /\ out.op = "check_system_health"
          /\ health_logs[i].entries # <<>>
          /\ \A j \in 1..Len(health_logs[i].entries) :
                 health_logs[i].entries[j].key.fmt \in {"epoch", "iso_us"}
          /\ "disk_usage" \notin DOMAIN MostRecent(health_logs[i].entries).data )
        => /\ out.raised \notin {"KeyError in latest_values", "IndexError", "ValueError"}
           /\ AlarmLine("not found", health_logs[i].server)

StalenessNotice(server) == AlarmLine("not updated", server)

(* C12: the alarm text of a health evaluation holds a staleness notice for  *)
(* a source exactly when the source file was modified more than 3600        *)
(* seconds ago; once added, the notice stays in the text.                   *)
C12_StalenessNoticeKept ==
    (HealthEvaluated /\ out.raised = "none") =>
        \A i \in 1..Len(health_logs) :
            StalenessNotice(health_logs[i].server)
            <=> now - health_logs[i].mtime > 3600

----------------------------------------------------------------------------
(* Properties of the keyword scan, under SpecGeneral *)

BadSource(f) ==
    \/ ~f.json_ok
    \/ \E j \in 1..Len(f.entries) : f.entries[j].key.fmt \notin {"epoch", "iso_us"}

(* C13: a keyword scan over several sources, one of them malformed JSON or  *)
(* holding a key that is no timestamp, is not aborted: the scan ends        *)
(* without the error being raised.                                          *)
C13_BadSourceDoesNotAbort ==
    ( /\ out.op = "check_general_logs"
      /\ Len(general_logs) > 1
      /\ \E i \in 1..Len(general_logs) : BadSource(general_logs[i]) )
    => out.raised \notin {"JSONDecodeError", "ValueError"}

(* a step in which a keyword scan ran to its end *)
ScanDone ==
    /\ out'.op = "check_general_logs"
    /\ out'.raised \notin {"JSONDecodeError", "ValueError"}

(* the value v of field k of the record stamped t of a source is in a text *)
InText(text, server, t, k, v) ==
    \E i \in 1..Len(text) :
        /\ text[i].server = server
        /\ \E j \in 1..Len(text[i].logs) :
              /\ text[i].logs[j].time = t
              /\ k \in DOMAIN text[i].logs[j].fields
              /\ text[i].logs[j].fields[k] = v

(* C14: for every record a keyword scan takes up (stamped after the cursor) *)
(* and every field of it, the value is in the alarm text exactly when the   *)
(* field name is an alarm keyword, and in the heartbeat text exactly when   *)
(* it is not.                                                               *)
C14_KeywordPartition ==
    [][ ScanDone =>
          \A i \in 1..Len(general_logs) :
            \A j \in 1..Len(general_logs[i].entries) :
              LET e == general_logs[i].entries[j]
                  server == general_logs[i].server
              IN  e.key.t > last_general_log_check_ts =>
                    \A k \in DOMAIN e.data :
                      /\ InText(out'.alarm_text, server, e.key.t, k, e.data[k])
                           <=> k \in {"alert", "error"}
                      /\ InText(out'.hb_text, server, e.key.t, k, e.data[k])
                           <=> k \notin {"alert", "error"} ]_vars

(* a scanned record with a keyword field and another field, one in each text *)
C14_Witness ==
    /\ out.op = "check_general_logs" /\ out.raised = "none"
    /\ \E i \in 1..Len(general_logs) :
        \E j \in 1..Len(general_logs[i].entries) :
          LET e == general_logs[i].entries[j] IN
          /\ e.data = [status |-> "ok", error |-> "boom"]
          /\ InText(out.alarm_text, general_logs[i].server, e.key.t, "error", "boom")
          /\ InText(out.hb_text, general_logs[i].server, e.key.t, "status", "ok")
          /\ ~InText(out.hb_text, general_logs[i].server, e.key.t, "error", "boom")

----------------------------------------------------------------------------
(* Properties of the calls of one process, under SpecProducer *)

IsCall(i, op) == i \in 1..Len(calls) /\ calls[i].op = op

C16_PruneKeepsFromCutoff ==
    \A i \in 1..Len(calls) :
        calls[i].op = "prune" =>
            LET d == calls[i].before.data
                cutoff == calls[i].at - log_life * 86400
            IN  calls[i].after.data = Restrict(d, {k \in DOMAIN d : k.t >= cutoff})

(* load_logs_into_dict of the file a call left *)
Loaded(i) == check_log_file(calls[i].after).data

(* C17: after log_to_bot, load_logs_into_dict returns a store that holds    *)
(* the record under its stamped key, that key being the only new one, and   *)
(* every earlier record unchanged.                                          *)
C17_AppendThenLoad ==
    \A i \in 1..Len(calls) :
        (calls[i].op = "log_to_bot" /\ calls[i].key # NoKey) =>
            LET d == calls[i].before.data IN
            /\ calls[i].key \in DOMAIN Loaded(i)
            /\ DOMAIN Loaded(i) = DOMAIN d \cup {calls[i].key}
            /\ \A k \in DOMAIN d \ {calls[i].key} : Loaded(i)[k] = d[k]

(* C18: an input that is neither mapping nor string is refused with the     *)
(* store unchanged; a string that is not JSON is stored as {"general": it}. *)
C18_InputsRefusedOrWrapped ==
    \A i \in 1..Len(calls) :
        calls[i].op = "log_to_bot" =>
            /\ calls[i].input.kind = "other" =>
                  (calls[i].raised = "TypeError" /\ calls[i].after = calls[i].before)
            /\ calls[i].input.kind = "str" =>
                  /\ calls[i].key \in DOMAIN calls[i].after.data
                  /\ calls[i].after.data[calls[i].key] = [general |-> calls[i].input.text]

(* C33: the record log_to_bot stamps and merges into the store is a mapping *)
(* from field names to values for every input it accepts: a mapping, a      *)
(* string that is not JSON, and a string that is JSON of any kind (object,  *)
(* number, string, array).                                                  *)
C33_RecordsAreMappings ==
    \A i \in 1..Len(calls) :
        (calls[i].op = "log_to_bot" /\ calls[i].key # NoKey)
            => process_input_data(calls[i].input).type = "dict"

(* C34: whatever the clock says when log_to_bot stamps an entry, a          *)
(* microsecond of 0 included, str_to_datetime accepts the key and gives     *)
(* back the time of the stamp.                                              *)
C34_StampedKeyParsesBack ==
    \A i \in 1..Len(calls) :
        (calls[i].op = "log_to_bot" /\ calls[i].key # NoKey)
            => /\ str_to_datetime(calls[i].key).raised = "none"
               /\ str_to_datetime(calls[i].key).t = calls[i].at

----------------------------------------------------------------------------
(* Properties of the replication step, under SpecPush *)

Called(i, ev, pair) ==
    /\ i \in 1..Len(calls[1].events)
    /\ calls[1].events[i].ev = ev
    /\ calls[1].events[i].name = pair.name
    /\ calls[1].events[i].path = pair.path

(* C19: for every pair handed to push_log, prune is called for the pair's   *)
(* path, whatever the outcome of the transfer and of the configuration.     *)
C19_PruneNeverSkipped ==
    IsCall(1, "push_log") =>
        \A n \in 1..Len(calls[1].input.name_to_file) :
            \E i \in 1..Len(calls[1].events) :
                Called(i, "prune", calls[1].input.name_to_file[n])

(* C20: when a transfer fails, push_log does not raise, one entry with the  *)
(* field 'error' is added to the general log, and every pair's prune is     *)
(* called after its transfer.                                               *)
C20_TransferFailureLogged ==
    ( /\ IsCall(1, "push_log")
      /\ \E i \in 1..Len(calls[1].events) :
            calls[1].events[i].ev = "transfer" /\ ~calls[1].events[i].ok )
    => /\ calls[1].raised = "none"
       /\ \E k \in DOMAIN calls[1].after.data \ DOMAIN calls[1].before.data :
             "error" \in DOMAIN calls[1].after.data[k]
       /\ \A n \in 1..Len(calls[1].input.name_to_file) :
             \E i \in 1..Len(calls[1].events), j \in 1..Len(calls[1].events) :
                /\ i < j
                /\ Called(i, "transfer", calls[1].input.name_to_file[n])
                /\ Called(j, "prune", calls[1].input.name_to_file[n])

----------------------------------------------------------------------------
(* The job queue *)

(* the handler of /sleep ran for an administrator *)
SleepRan == cmd.op = "sleep_time" /\ cmd.raised # "not admin"

HasWord(text, word) == \E i \in 1..Len(text) : text[i] = word

Enabled(registry, name) ==
    \E i \in 1..Len(registry) : registry[i].name = name /\ registry[i].enabled

WakeJobs(registry) == {i \in 1..Len(registry) : registry[i].name = "_start_logs"}

(* C21: the sleep computed from the words of a /sleep message is the sum of *)
(* unit seconds times count over the words unit=count; a word of any other  *)
(* form counts 0 and does not make the command fail; a sum of 0 becomes     *)
(* 86400; d=1 h=2 gives 93600.                                              *)
C21_MalformedWordsCountZero ==
    SleepRan =>
        /\ cmd.raised \in {"none", "NotificationError"}
        /\ cmd.total_sleep \in {86400, 93600}
        /\ cmd.text = <<Slash_sleep, <<"d", "=", "1">>, <<"h", "=", "2">> >>
               => cmd.total_sleep = 93600
        /\ cmd.text = <<Slash_sleep, <<"d", "=", "1", "=", "2">> >>
               => cmd.total_sleep = 86400

(* the jobs the scope of a /sleep message names *)
ScopeOf(text) ==
    IF HasWord(text, Word_non_daily) THEN {"check_system_health", "server_up_checks"}
    ELSE IF HasWord(text, Word_up_check) THEN {"server_up_checks"}
    ELSE RepeatingJobs

(* C22: a sleep command disables the jobs of its scope and no other: with   *)
(* non-daily the system-health and up-check jobs, with up_check the         *)
(* up-check job, with no scope all four; the other jobs keep their flag.    *)
C22_SleepDisablesItsScope ==
    [][(commands' = commands + 1 /\ cmd'.op = "sleep_time" /\ cmd'.raised = "none")
       => \A name \in RepeatingJobs :
             IF name \in ScopeOf(cmd'.text)
             THEN ~Enabled(jobs', name)
             ELSE Enabled(jobs', name) = Enabled(jobs, name)]_vars

(* C23: after the sleep commands sent so far at most one wake job is        *)
(* pending, and it is the one the latest sleep command scheduled, to run    *)
(* when the sleep of that command is over.                                  *)
C23_WakeJobOfLatestSleep ==
    /\ Cardinality(WakeJobs(jobs)) <= 1
    /\ SleepRan =>
          \A i \in WakeJobs(jobs) :
              /\ cmd.scheduled
              /\ jobs[i].next_t = cmd.at + cmd.total_sleep

(* the handler of /run_jobs ran for an administrator *)
RunJobsRan == cmd.op = "run_jobs" /\ cmd.raised # "not admin"

(* C24: run_jobs runs the callback of every registered job once, a pending *)
(* wake job among them, and leaves the enabled flag and the next run of     *)
(* every job as they were.                                                  *)
C24_RunJobsRunsEveryCallback ==
    [][(commands' = commands + 1 /\ cmd'.op = "run_jobs" /\ cmd'.raised # "not admin")
       => /\ jobs' = jobs
          /\ Len(cmd'.invoked) = Len(jobs)
          /\ \A i \in 1..Len(jobs) :
                /\ cmd'.invoked[i].name = jobs[i].name
                /\ cmd'.invoked[i].raised # "TypeError"]_vars

(* C25: in run_jobs an exception of one job's callback neither keeps the    *)
(* callbacks of the jobs after it from being called nor leaves run_jobs.    *)
C25_RunJobsSurvivesCallback ==
    RunJobsRan =>
        /\ cmd.raised = "none"
        /\ Len(cmd.invoked) = Len(jobs)
        /\ \A i \in 1..Len(jobs) : cmd.invoked[i].name = jobs[i].name

C25_Witness ==
    /\ RunJobsRan
    /\ \E i \in 1..Len(cmd.invoked) :
          /\ cmd.invoked[i].raised # "none"
          /\ i < Len(cmd.invoked)
          /\ cmd.invoked[i + 1].raised = "none"

(* the handler of /stop ran for an administrator, on a message of no scope *)
StopAllRan ==
    cmd.op = "stop_logs" /\ cmd.text = <<Slash_stop>> /\ cmd.raised # "not admin"

(* C31: after a stop command of no scope the four repeating jobs stay       *)
(* disabled until a start command or the wake of a sleep command sent after *)
(* the stop: the wake job an earlier sleep left pending, which is all that  *)
(* can run while the stop is the last command, does not enable them.        *)
C31_StopOutlastsEarlierWake ==
    [][(StopAllRan /\ cmd'.op \notin {"start_logs", "sleep_time"})
       => \A name \in RepeatingJobs : ~Enabled(jobs', name)]_vars

----------------------------------------------------------------------------
(* The health evaluation over several sources, under SpecSources *)

(* a source whose store is empty *)
EmptySources == {i \in 1..Len(health_logs) : health_logs[i].entries = <<>>}

(* C32: a health evaluation over sources of which one has an empty store    *)
(* does not fail: the most recent record of the empty store is the empty    *)
(* mapping, and the texts of the other sources are built and sent, the      *)
(* heartbeat line of the latest value and the alarm of a value above the    *)
(* threshold among them.                                                    *)
C32_EmptyStoreDoesNotFail ==
    (out.op = "check_system_health" /\ EmptySources # {})
        => /\ out.raised \in {"none", "NotificationError"}
           /\ \A i \in (1..Len(health_logs)) \ EmptySources :
                 LET latest == MostRecent(health_logs[i].entries).data IN
                 monitored \in DOMAIN latest
                     => /\ HeartbeatLine(health_logs[i].server, monitored, latest[monitored])
                        /\ exceeds(latest[monitored], disk_usage_threshold)
                               => AlarmLine("exceeds threshold", health_logs[i].server)

----------------------------------------------------------------------------
(* The up-check job, the scans and the notifier *)

(* C26: with no link to check, a run of the up-check job sends nothing,     *)
(* neither an alarm nor a heartbeat, also when the heartbeat is due.        *)
C26_NoLinkNoMessage ==
    (out.op = "server_up_checks" /\ links_to_check_uptime = <<>>)
        => Delivered(out.hb_sent) = <<>> /\ Delivered(out.alarm_sent) = <<>>

(* a step of the general-log scan *)
ScanStep == out'.op = "check_general_logs"

(* C27: when the notifier fails on the alarm text of a general-log scan,    *)
(* the cursor stays before the records of that text, so that the next scan  *)
(* reports them again.                                                      *)
C27_FailedAlarmKeepsCursor ==
    [][(ScanStep /\ out'.raised = "NotificationError")
       => last_general_log_check_ts' = last_general_log_check_ts]_vars

(* the records of the sources that hold an alarm word *)
AlarmRecordsOf(files) ==
    {[server |-> files[i].server, time |-> files[i].entries[k].key.t] :
        <<i, k>> \in {ik \in (1..Len(files)) \X (1..3) :
                        /\ ik[2] <= Len(files[ik[1]].entries)
                        /\ \E w \in alarm_words_for_general_logs :
                              w \in DOMAIN files[ik[1]].entries[ik[2]].data}}

(* the number of alarm texts that included a record *)
TimesReported(rec) == Cardinality({i \in 1..Len(reported) : reported[i] = rec})

(* every source can be read *)
SourcesReadable ==
    \A i \in 1..Len(general_logs) :
        /\ general_logs[i].json_ok
        /\ \A k \in 1..Len(general_logs[i].entries) :
              str_to_datetime(general_logs[i].entries[k].key).raised = "none"

(* C28: a record with an alarm word, in whatever source and whenever it     *)
(* arrives, is included in the alarm text of one scan and of no more: once  *)
(* a scan is over, every such record of the sources has been included once. *)
C28_EveryAlarmRecordOnce ==
    (out.op = "check_general_logs" /\ SourcesReadable)
        => \A rec \in AlarmRecordsOf(general_logs) : TimesReported(rec) = 1

(* C29: the heartbeat text a scan builds inside the wait period is not      *)
(* dropped: the cursor does not pass records whose heartbeat fields no      *)
(* message delivered.                                                       *)
C29_HeartbeatTextKept ==
    [][(ScanStep /\ out'.raised = "none" /\ out'.hb_text # <<>>
        /\ Delivered(out'.hb_sent) = <<>>)
       => last_general_log_check_ts' = last_general_log_check_ts]_vars

(* C30: of two calls of server_up_checks in progress at most one passes the *)
(* gate of the category: no call can pass it between the check of another   *)
(* call and that call's update of the time of the last heartbeat.           *)
C30_OneCallPassesTheGate ==
    Cardinality({k \in Invocations : inv[k].pc = "await heartbeat"}) <= 1
====
